---- MODULE Spec2Model ----
(***************************************************************************)
(* A model of the watch-tower: the conditional-order registry             *)
(* (addContract.ts), the per-chain watcher (warm-up, live tail, block      *)
(* processor), the Registry over its store (types.d.ts), the log query     *)
(* and the exits of run.                                                   *)
(*                                                                         *)
(* JavaScript objects have identity: every decoded params object carries   *)
(* a `ref`, and `===` on objects compares refs, never contents.            *)
(* A JavaScript Set of objects is an insertion-ordered list of entries.    *)
(***************************************************************************)
EXTENDS Integers, Sequences, FiniteSets, TLC

\* ------------------------------------------------------------------------
\* Bounds of the model
\* ------------------------------------------------------------------------
MaxOrders == 2
MaxTip == 10
MaxNotifications == 2
MaxEvery == 2
MaxRestarts == 1
MaxChains == 4

\* ------------------------------------------------------------------------
\* Value domains
\* ------------------------------------------------------------------------
OwnerList == <<"A", "B">>
Owners == {OwnerList[i] : i \in 1..Len(OwnerList)}
Handlers == {"h1", "h2"}
Salts == {1}
StaticInputs == {"i1"}
Roots == {"r1", "r2"}

ParamValues == [handler : Handlers, salt : Salts, staticInput : StaticInputs]

NoProof == [none |-> TRUE]
Empty == [empty |-> TRUE]
NoEvent == [topic |-> "none"]
NoOp == [kind |-> "none", owner |-> "-", root |-> "-", mark |-> FALSE, event |-> NoEvent]

\* JavaScript values, each with its type; a string is the sequence of its parts
JsUndefined == [jsType |-> "undefined"]
JsNull == [jsType |-> "null"]
JsNumber(n) == [jsType |-> "number", value |-> n]
JsString(chars) == [jsType |-> "string", value |-> chars]
JsDate(ms) == [jsType |-> "Date", value |-> ms]
JsObject(fields) == [jsType |-> "Object", value |-> fields]
JsArray(values) == [jsType |-> "Array", value |-> values]
JsMap(entries) == [jsType |-> "Map", value |-> entries]
JsSet(values) == [jsType |-> "Set", value |-> values]

\* the truthiness of a value
Truthy(v) ==
  CASE v.jsType \in {"undefined", "null"} -> FALSE
    [] v.jsType = "number" -> v.value # 0
    [] v.jsType = "string" -> Len(v.value) > 0
    [] OTHER -> TRUE

VARIABLES
  ownerOrders,   \* registry.ownerOrders: owner -> sequence of conditional orders
  lastOp,        \* the last registry operation: its kind and, for a flush, its owner,
                 \* its root and whether it met two stale orders in a row; for an
                 \* event whether _registerNewOrder reported an error
  latestRoot     \* owner -> the root of the last MerkleRootSet log decoded for it

VARIABLES
  \* configuration
  pageSize,              \* 0 when falsy
  oneShot,
  processEveryNumBlocks,
  \* the chain
  tip,                   \* number of the latest block
  hashes,                \* height -> the fork that produced the block at that height
  fork,                  \* the current fork
  eventBlocks,           \* the heights whose block carries a ConditionalOrderCreated log
  \* registry and store
  lastProcessedBlock,    \* registry.lastProcessedBlock (in memory)
  store,                 \* what the last committed batch left in the store
  \* warmUp
  pc, sync, fromBlock, toBlock, currentBlock,
  lpbLocal,              \* the local variable lastProcessedBlock of warmUp
  queue,                 \* the blocks of the page still to be processed
  \* runBlockWatcher
  lastBlockReceived,
  handlers,              \* the 'block' handlers that have started and not finished
  reorgsTotal, reorgDepth,
  \* history
  handed,                \* blocks handed to the Block Processor, over all runs
  cursorAtStart,         \* the persisted cursor the current run started from
  tipAtStart,            \* the number of the tip the current run read first, or NoTip
  pageOrder,             \* the blocks of the current page in the order they were processed
  lastProc,              \* the last call of processBlock
  reorged,               \* a reorg has happened
  restarts,
  queries,               \* the log queries of the current run of warm-up, pass by pass
  \* the watchdog
  inPod,                 \* isRunningInKubernetesPod(): "pod" or "host", "unread" until
                         \* the watchdog reads it
  storeOpen,             \* registry.storage has not been closed
  exitCode,              \* the status process.exit was called with, or Running
  lastCheck,             \* timeElapsed of the last watchdog check, or NoCheck
  \* ChainContext.chains
  otherChains            \* the sync state of every other registered context, by chain id

VARIABLES
  \* the Registry of types.d.ts over the store
  db,                    \* the store: storage key -> the string under it, or undefined
  registry,              \* a Registry in memory
  loaded,                \* the Registry the last Registry.load returned, or NotLoaded
  storeOp                \* the last operation on the store

VARIABLES
  \* pollContractForEvents on its own
  rpcLogs,               \* what provider.getLogs returns for the topic
  addresses,             \* context.addresses: the allow-list, when configured
  polledEvents           \* what the last pollContractForEvents returned

VARIABLES
  \* run and stop
  writeFailed,           \* a registry.write of persistLastProcessedBlock has rejected
  returned,              \* how the last processBlockAndPersist settled, and for which block
  exitCause              \* what led to process.exit, or "none"

VARIABLES
  \* one store shared by the registries of several networks
  written                \* network -> the Registry whose last write committed, or NotLoaded

VARIABLES
  \* actions/utils/logging.ts
  initialized,           \* the module variable of logging.ts
  logOnlyIfError,        \* the parameter the wrappers of console closed over
  buffer,                \* the messages held back
  winstonLog,            \* the messages handed to winston.log, in order
  consoleCalls           \* the calls of the console methods so far

VARIABLES
  \* the policy refresh of processBlock in domain/chainContext.ts
  filterCall             \* a call of processBlock: chain, block number, policy, outcome

regVars == <<ownerOrders, lastOp, latestRoot>>

cfgVars == <<pageSize, oneShot, processEveryNumBlocks, eventBlocks, otherChains>>
chainVars == <<tip, hashes, fork, reorged>>
warmVars == <<pc, sync, fromBlock, toBlock, currentBlock, lpbLocal, queue, pageOrder>>
liveVars == <<lastBlockReceived, handlers, reorgsTotal, reorgDepth>>
histVars == <<handed, cursorAtStart, tipAtStart, lastProc, restarts, queries>>
dogVars == <<inPod, storeOpen, exitCode, lastCheck>>
pollVars == <<rpcLogs, addresses, polledEvents>>
logVars == <<initialized, logOnlyIfError, buffer, winstonLog, consoleCalls>>
auxVars == <<written, logVars, filterCall>>
dbVars == <<db, registry, loaded, storeOp, pollVars, auxVars>>
runVars == <<writeFailed, returned, exitCause>>
watchVars == <<cfgVars, chainVars, lastProcessedBlock, store, warmVars, liveVars, histVars,
               dogVars, dbVars, runVars>>

vars == <<regVars, watchVars>>

\* ------------------------------------------------------------------------
\* addContract.ts
\* ------------------------------------------------------------------------

\* a decoded params object: the triple plus the identity of the object
ParamsObject(v, r) ==
  [handler |-> v.handler, salt |-> v.salt, staticInput |-> v.staticInput, ref |-> r]

ParamsValue(p) ==
  [handler |-> p.handler, salt |-> p.salt, staticInput |-> p.staticInput]

\* `conditionalOrder.params === params`: identity of two objects
StrictEquals(a, b) == a.ref = b.ref

NewConditionalOrder(tx, params, proof) ==
  [tx |-> tx, params |-> params, proof |-> proof]

add(oo, tx, owner, params, proof) ==
  IF owner \in DOMAIN oo
    THEN IF \E i \in 1..Len(oo[owner]) : StrictEquals(oo[owner][i].params, params)
           THEN oo
           ELSE [oo EXCEPT ![owner] = Append(@, NewConditionalOrder(tx, params, proof))]
    ELSE oo @@ (owner :> <<NewConditionalOrder(tx, params, proof)>>)

\* lines 226-229: the condition under which flush deletes an order
AnyProofIsStale(order, root) == order.proof # NoProof

IsStale(order, root) ==
  order.proof # NoProof /\ order.proof.merkleRoot # root

RECURSIVE Compact(_)
Compact(entries) ==
  IF entries = <<>> THEN <<>>
  ELSE IF Head(entries) = Empty THEN Compact(Tail(entries))
       ELSE <<Head(entries)>> \o Compact(Tail(entries))

\* the for-of loop over conditionalOrders.values() with delete() inside:
\* a Set iterator walks the entry list by position and a deleted entry
\* leaves an empty slot, so positions do not shift
RECURSIVE SkipAfterDelete(_, _, _)
SkipAfterDelete(entries, i, root) ==
  IF i > Len(entries) THEN entries
  ELSE IF IsStale(entries[i], root)
         THEN SkipAfterDelete(SubSeq(entries, 1, i - 1) \o SubSeq(entries, i + 1, Len(entries)),
                              i + 1, root)
         ELSE SkipAfterDelete(entries, i + 1, root)

RECURSIVE FlushLoop(_, _, _)
FlushLoop(entries, i, root) ==
  IF i > Len(entries) THEN entries
  ELSE IF entries[i] # Empty /\ IsStale(entries[i], root)
         THEN FlushLoop([entries EXCEPT ![i] = Empty], i + 1, root)
         ELSE FlushLoop(entries, i + 1, root)

NoFlush(oo, owner, root) == oo

flush(oo, owner, root) ==
  IF owner \in DOMAIN oo
    THEN [oo EXCEPT ![owner] = Compact(FlushLoop(@, 1, root))]
    ELSE oo

RECURSIVE SumLen(_, _)
SumLen(oo, owners) ==
  IF owners = {} THEN 0
  ELSE LET o == CHOOSE x \in owners : TRUE
       IN Len(oo[o]) + SumLen(oo, owners \ {o})

\* the number of conditional orders the registry holds
TotalOrders(oo) == SumLen(oo, DOMAIN oo)

\* the identities of the params objects the registry holds
RefsOf(oo) ==
  UNION {{oo[o][i].params.ref : i \in 1..Len(oo[o])} : o \in DOMAIN oo}

\* decodeEventLog / defaultAbiCoder.decode build a new object on every call:
\* its identity differs from that of every object the registry holds
FreshRef(oo) ==
  CHOOSE n \in 1..(TotalOrders(oo) + 1) :
    n \notin RefsOf(oo) /\ \A m \in 1..(n - 1) : m \in RefsOf(oo)

\* the orders of a MerkleRootSet proof, decoded and added one by one
RECURSIVE AddProofOrders(_, _, _, _, _)
AddProofOrders(oo, tx, owner, root, values) ==
  IF values = <<>> THEN oo
  ELSE AddProofOrders(add(oo, tx, owner, ParamsObject(Head(values), FreshRef(oo)),
                          [merkleRoot |-> root]),
                      tx, owner, root, Tail(values))

\* _registerNewOrder: the registry after the event, with {error, added}
\*   event.decoded = 0: decodeEventLog throws
\*   event.orders: the orders of proof.data that are decoded and added
\*   event.fails: a decode of proof.data or of the next order throws
FlushWhenProofEmitted(oo, event) ==
  IF event.topic = "ConditionalOrderCreated"
    THEN IF event.decoded = 0
           THEN [oo |-> oo, error |-> TRUE, added |-> FALSE]
           ELSE [oo |-> add(oo, event.tx, event.owner,
                            ParamsObject(event.params, FreshRef(oo)), NoProof),
                 error |-> FALSE, added |-> TRUE]
  ELSE IF event.topic = "MerkleRootSet"
    THEN IF event.decoded = 0
           THEN [oo |-> oo, error |-> TRUE, added |-> FALSE]
           ELSE IF event.location # 1
                  THEN [oo |-> oo, error |-> FALSE, added |-> FALSE]
                  ELSE [oo |-> AddProofOrders(flush(oo, event.owner, event.root),
                                              event.tx, event.owner,
                                              event.root, event.orders),
                        error |-> event.fails,
                        added |-> event.orders # <<>>]
  ELSE [oo |-> oo, error |-> FALSE, added |-> FALSE]

registerNewOrder(oo, event) ==
  IF event.topic = "ConditionalOrderCreated"
    THEN IF event.decoded = 0
           THEN [oo |-> oo, error |-> TRUE, added |-> FALSE]
           ELSE [oo |-> add(oo, event.tx, event.owner,
                            ParamsObject(event.params, FreshRef(oo)), NoProof),
                 error |-> FALSE, added |-> TRUE]
  ELSE IF event.topic = "MerkleRootSet"
    THEN IF event.decoded = 0
           THEN [oo |-> oo, error |-> TRUE, added |-> FALSE]
           ELSE LET flushed == flush(oo, event.owner, event.root) IN
                IF event.location # 1
                  THEN [oo |-> flushed, error |-> FALSE, added |-> FALSE]
                  ELSE [oo |-> AddProofOrders(flushed, event.tx, event.owner,
                                              event.root, event.orders),
                        error |-> event.fails,
                        added |-> event.orders # <<>>]
  ELSE [oo |-> oo, error |-> FALSE, added |-> FALSE]

\* ------------------------------------------------------------------------
\* The chain: blocks, hashes, logs
\* ------------------------------------------------------------------------
deploymentBlock == 9
FirstHeight == deploymentBlock - 1
LiveStart == deploymentBlock
LastHeight == IF MaxTip > LiveStart + MaxNotifications THEN MaxTip ELSE LiveStart + MaxNotifications

\* the 'block' notifications emitted so far in the live tail: one for each new
\* block and one for each replaced block
Notifications == (IF tip > LiveStart THEN tip - LiveStart ELSE 0) + fork
Heights == FirstHeight..LastHeight

NoBlock == [none |-> TRUE]
Latest == -1

\* the watchdog: WATCHDOG_TIMEOUT_DEFAULT_SECS, the times a check can find
\* since the last block, and the values of the variables before any check
\* and before any exit
watchdogTimeout == 30
Elapsed == {watchdogTimeout - 1, watchdogTimeout}
NoCheck == -1
NoTip == -1
Running == -1

\* provider.getBlock(n) for a block the chain has
Block(n) == [number |-> n, hash |-> <<n, hashes[n]>>, timestamp |-> 12 * n + hashes[n]]

blockToRegistryBlock(block) == [number |-> block.number, hash |-> block.hash]

\* the ConditionalOrderCreated logs of block b: even blocks carry an order of
\* owner A, odd blocks an order of owner B, each with a salt of its own
LogsOf(b) ==
  IF b \in eventBlocks
    THEN <<[topic |-> "ConditionalOrderCreated", tx |-> "t1",
            owner |-> IF b % 2 = 0 THEN "A" ELSE "B",
            params |-> [handler |-> "h1", salt |-> b, staticInput |-> "i1"],
            decoded |-> 1, blockNumber |-> b]>>
    ELSE <<>>

\* pollContractForEvents(fromBlock, toBlock): the block numbers of the logs
\* returned for the range
pollContractForEvents(from, to) ==
  LET upper == IF to = Latest \/ to > tip THEN tip ELSE to
  IN {b \in eventBlocks : from <= b /\ b <= upper}

\* ------------------------------------------------------------------------
\* Object.keys(eventsByBlock).sort() and Number(blockNumberKey)
\* ------------------------------------------------------------------------

\* a property key is the decimal string of the number: its digits
RECURSIVE NumberToString(_)
NumberToString(n) == IF n < 10 THEN <<n>> ELSE Append(NumberToString(n \div 10), n % 10)

RECURSIVE Number(_)
Number(str) ==
  IF Len(str) = 1 THEN str[1]
  ELSE 10 * Number(SubSeq(str, 1, Len(str) - 1)) + str[Len(str)]

\* Object.keys lists integer keys in ascending numeric order
RECURSIVE AscendingKeys(_)
AscendingKeys(S) ==
  IF S = {} THEN <<>>
  ELSE LET m == CHOOSE x \in S : \A y \in S : x <= y
       IN <<NumberToString(m)>> \o AscendingKeys(S \ {m})

\* comparison of two strings by code units, the default of Array.prototype.sort
RECURSIVE StringLess(_, _)
StringLess(a, b) ==
  IF a = <<>> THEN b # <<>>
  ELSE IF b = <<>> THEN FALSE
  ELSE IF Head(a) # Head(b) THEN Head(a) < Head(b)
  ELSE StringLess(Tail(a), Tail(b))

RECURSIVE InsertSorted(_, _)
InsertSorted(sorted, x) ==
  IF sorted = <<>> THEN <<x>>
  ELSE IF StringLess(x, Head(sorted)) THEN <<x>> \o sorted
  ELSE <<Head(sorted)>> \o InsertSorted(Tail(sorted), x)

RECURSIVE SortStrings(_)
SortStrings(strs) ==
  IF strs = <<>> THEN <<>>
  ELSE InsertSorted(SortStrings(Tail(strs)), Head(strs))

\* the order in which warm-up walks the blocks of a page
BlockOrder(S) ==
  LET keys == SortStrings(AscendingKeys(S))
  IN [i \in 1..Len(keys) |-> Number(keys[i])]

\* ------------------------------------------------------------------------
\* Registry store
\* ------------------------------------------------------------------------

\* stringifyOrders: the contents of the orders, without object identity
stringifyOrders(oo) ==
  [o \in DOMAIN oo |->
     [i \in 1..Len(oo[o]) |->
        [tx |-> oo[o][i].tx, params |-> ParamsValue(oo[o][i].params),
         proof |-> oo[o][i].proof]]]

\* Registry.write: one batch with the orders and the cursor
write(oo, cursor) == [orders |-> stringifyOrders(oo), cursor |-> cursor]

RefBase(stored, o) ==
  SumLen(stored, {OwnerList[k] : k \in {j \in 1..Len(OwnerList) :
                     /\ OwnerList[j] \in DOMAIN stored
                     /\ \E m \in 1..Len(OwnerList) : OwnerList[m] = o /\ j < m}})

\* parseConditionalOrders: every parsed params is a new object
parseConditionalOrders(stored) ==
  [o \in DOMAIN stored |->
     [i \in 1..Len(stored[o]) |->
        [tx |-> stored[o][i].tx,
         params |-> ParamsObject(stored[o][i].params, RefBase(stored, o) + i),
         proof |-> stored[o][i].proof]]]

EmptyStore == [orders |-> <<>>, cursor |-> NoBlock]

\* ------------------------------------------------------------------------
\* Block Processor
\* ------------------------------------------------------------------------
IngestOutcomes == {"ok", "noReceipt", "notCompatible", "decodeError", "writeError"}

\* the outcomes drawn for the events of a block of the live tail
LiveOutcomes == {"ok", "decodeError"}

\* lines 534-541: currentBlock?.number and currentBlock?.timestamp, the
\* blockNumberOverride and blockTimestampOverride of processBlock
NoOverrides == [blockNumber |-> JsUndefined, blockTimestamp |-> JsUndefined]

OverridesOfBlock(block, current) ==
  [blockNumber |-> JsNumber(block.number), blockTimestamp |-> JsNumber(block.timestamp)]

PollOverrides(block, current) ==
  IF current = NoBlock THEN NoOverrides
  ELSE [blockNumber |-> JsNumber(current.number),
        blockTimestamp |-> JsNumber(current.timestamp)]

NoProc == [block |-> 0, phase |-> "none", polled |-> FALSE, error |-> FALSE,
           override |-> NoOverrides, events |-> 0, receipts |-> 0, skipped |-> 0,
           input |-> <<>>, steps |-> <<>>, writes |-> 0]

\* what processBlock does, step by step: the round of the event loop for an
\* event with what became of it, the poll step, the throw at the end
Step(kind, event, outcome, rejected) ==
  [step |-> kind, event |-> event, outcome |-> outcome, rejected |-> rejected]

\* one round of the event loop of processBlock: getTransactionReceipt, then
\* addContract (_addContract: compatibility check, _registerNewOrder,
\* writeRegistry, throw on error)
\* part_000 lines 458-459: if (receipt)
ReceiptNotChecked(outcome) == TRUE

hasReceipt(outcome) == outcome # "noReceipt"

IngestAnyContract(st, event, outcome) ==
  IF ~hasReceipt(outcome)
    THEN [st EXCEPT !.skipped = @ + 1,
                    !.steps = Append(@, Step("event", event, outcome, FALSE))]
  ELSE LET r == registerNewOrder(st.oo, [event EXCEPT !.decoded =
                                            IF outcome = "decodeError" THEN 0 ELSE 1])
           saved == ~r.error /\ outcome # "writeError"
           rejected == r.error \/ outcome = "writeError"
       IN [oo |-> r.oo,
           store |-> IF saved THEN write(r.oo, st.cursor) ELSE st.store,
           cursor |-> st.cursor,
           error |-> st.error \/ rejected,
           receipts |-> st.receipts + 1, skipped |-> st.skipped,
           steps |-> Append(st.steps, Step("event", event, outcome, rejected)),
           writes |-> st.writes + (IF r.error THEN 0 ELSE 1)]

IngestEvent(st, event, outcome) ==
  IF ~hasReceipt(outcome)
    THEN [st EXCEPT !.skipped = @ + 1,
                    !.steps = Append(@, Step("event", event, outcome, FALSE))]
  ELSE IF outcome = "notCompatible"
    THEN [st EXCEPT !.receipts = @ + 1,
                    !.steps = Append(@, Step("event", event, outcome, FALSE))]
  ELSE LET r == registerNewOrder(st.oo, [event EXCEPT !.decoded =
                                            IF outcome = "decodeError" THEN 0 ELSE 1])
           \* hasErrors ||= !(await writeRegistry()): no write after an error
           saved == ~r.error /\ outcome = "ok"
           rejected == r.error \/ outcome = "writeError"
       IN [oo |-> r.oo,
           store |-> IF saved THEN write(r.oo, st.cursor) ELSE st.store,
           cursor |-> st.cursor,
           error |-> st.error \/ rejected,
           receipts |-> st.receipts + 1, skipped |-> st.skipped,
           steps |-> Append(st.steps, Step("event", event, outcome, rejected)),
           writes |-> st.writes + (IF r.error THEN 0 ELSE 1)]

\* the event loop of processBlock: every event in turn, whatever became of
\* the ones before it
RECURSIVE AbortOnError(_, _, _)
AbortOnError(st, events, outcomes) ==
  IF events = <<>> \/ st.error THEN st
  ELSE AbortOnError(IngestEvent(st, Head(events), Head(outcomes)),
                    Tail(events), Tail(outcomes))

RECURSIVE IngestEvents(_, _, _)
IngestEvents(st, events, outcomes) ==
  IF events = <<>> THEN st
  ELSE IngestEvents(IngestEvent(st, Head(events), Head(outcomes)),
                    Tail(events), Tail(outcomes))

\* const shouldProcessBlock = block.number % processEveryNumBlocks === 0
WrongModulo(number) == processEveryNumBlocks % number = 0

shouldProcessBlock(number) == number % processEveryNumBlocks = 0

\* processBlock: the registry and the store after the block, and what happened
processBlock(block, events, outcomes, pollOk, override, phase) ==
  LET st == IngestEvents([oo |-> ownerOrders, store |-> store,
                          cursor |-> lastProcessedBlock, error |-> FALSE,
                          receipts |-> 0, skipped |-> 0, steps |-> <<>>, writes |-> 0],
                         events, outcomes)
      polled == shouldProcessBlock(block.number)
      hasErrors == st.error \/ (polled /\ ~pollOk)
  IN [oo |-> st.oo, store |-> st.store,
      proc |-> [block |-> block.number, phase |-> phase, polled |-> polled,
                error |-> hasErrors,
                override |-> override, events |-> Len(events),
                receipts |-> st.receipts, skipped |-> st.skipped,
                input |-> events, writes |-> st.writes,
                steps |-> st.steps
                          \o (IF polled THEN <<Step("poll", NoEvent, "none", ~pollOk)>>
                                        ELSE <<>>)
                          \o (IF hasErrors THEN <<Step("throw", NoEvent, "none", TRUE)>>
                                           ELSE <<>>)]]

\* ------------------------------------------------------------------------
\* The chain moves
\* ------------------------------------------------------------------------

\* provider.on("block"): a notification starts a handler
Notify(n) ==
  Append(handlers, [num |-> n, stage |-> "getBlock", block |-> NoBlock, error |-> FALSE])

\* warm-up reads the tip at the start, at the bounds of a page, at the end
\* of a page and at the tip check: a block mined while the blocks of a page
\* are processed is seen at the next of these reads
NewBlock ==
  /\ pc \in {"start", "page", "pageEnd", "tipCheck"}
  /\ IF oneShot THEN tip < MaxTip ELSE Notifications < MaxNotifications
  /\ tip' = tip + 1
  /\ hashes' = [hashes EXCEPT ![tip + 1] = fork]
  /\ \E hasLog \in BOOLEAN :
       eventBlocks' = IF hasLog /\ tip + 1 >= deploymentBlock
                        THEN eventBlocks \cup {tip + 1} ELSE eventBlocks \ {tip + 1}
  /\ UNCHANGED <<regVars, pageSize, oneShot, processEveryNumBlocks, otherChains, fork, reorged,
                 lastProcessedBlock, store, warmVars, liveVars, histVars, dogVars, dbVars, runVars>>

\* in the live tail the provider emits 'block' for every new block
LiveNewBlock ==
  /\ pc = "live"
  /\ Notifications < MaxNotifications
  /\ tip' = tip + 1
  /\ hashes' = [hashes EXCEPT ![tip + 1] = fork]
  /\ \E hasLog \in BOOLEAN :
       eventBlocks' = IF hasLog THEN eventBlocks \cup {tip + 1} ELSE eventBlocks \ {tip + 1}
  /\ handlers' = Notify(tip + 1)
  /\ UNCHANGED <<regVars, pageSize, oneShot, processEveryNumBlocks, otherChains, fork, reorged,
                 lastProcessedBlock, store, warmVars,
                 lastBlockReceived, reorgsTotal, reorgDepth, histVars, dogVars, dbVars, runVars>>

\* the block at the tip is replaced by a block of a new fork that carries the
\* same logs
Reorg ==
  /\ pc = "live"
  /\ Notifications < MaxNotifications
  /\ tip >= deploymentBlock
  /\ fork' = fork + 1
  /\ hashes' = [hashes EXCEPT ![tip] = fork + 1]
  /\ reorged' = TRUE
  /\ handlers' = Notify(tip)
  /\ UNCHANGED <<regVars, cfgVars, tip, lastProcessedBlock, store, warmVars,
                 lastBlockReceived, reorgsTotal, reorgDepth, histVars, dogVars, dbVars, runVars>>

\* ------------------------------------------------------------------------
\* types.d.ts: the Registry over the Registry Store
\* ------------------------------------------------------------------------

\* lines 46-56: the storage keys of a network
LAST_NOTIFIED_ERROR_STORAGE_KEY == "LAST_NOTIFIED_ERROR"
LAST_PROCESSED_BLOCK_STORAGE_KEY == "LAST_PROCESSED_BLOCK"
CONDITIONAL_ORDER_REGISTRY_STORAGE_KEY == "CONDITIONAL_ORDER_REGISTRY"
CONDITIONAL_ORDER_REGISTRY_VERSION_KEY == "CONDITIONAL_ORDER_REGISTRY_VERSION"
CONDITIONAL_ORDER_REGISTRY_VERSION == 1
network == "1"

\* the networks whose registries share the store: the watcher's own and another
Networks == {network, "100"}

SharedStorageKey(key, net) == <<key, "_", network>>

getNetworkStorageKey(key, net) == <<key, "_", net>>

KeyNames ==
  {LAST_NOTIFIED_ERROR_STORAGE_KEY, LAST_PROCESSED_BLOCK_STORAGE_KEY,
   CONDITIONAL_ORDER_REGISTRY_STORAGE_KEY, CONDITIONAL_ORDER_REGISTRY_VERSION_KEY}

StorageKeys == {getNetworkStorageKey(k, net) : k \in KeyNames, net \in Networks}

\* the facade of the store (spec 4.1): get gives the string under a key or
\* nothing; a batch collects puts and dels and commits them all at once
EmptyDb == [k \in StorageKeys |-> JsUndefined]
get(d, key) == d[key]
put(batch, key, value) == Append(batch, [op |-> "put", key |-> key, value |-> value])
del(batch, key) == Append(batch, [op |-> "del", key |-> key, value |-> JsUndefined])

RECURSIVE batchWrite(_, _)
batchWrite(d, batch) ==
  IF batch = <<>> THEN d
  ELSE batchWrite([d EXCEPT ![Head(batch).key] = Head(batch).value], Tail(batch))

\* Date.prototype.toISOString and new Date(isoDate)
toISOString(date) == JsString(<<"T", date.value>>)
NewDate(isoDate) == JsDate(isoDate.value[2])

\* lines 312-326: a Map becomes {dataType: "Map", value: its entries}, a Set
\* {dataType: "Set", value: its values}
replacer(value) ==
  IF value.jsType = "Map"
    THEN JsObject([dataType |-> JsString(<<"Map">>),
                   value |-> JsArray([i \in DOMAIN value.value |->
                                        JsArray(value.value[i])])])
  ELSE IF value.jsType = "Set"
    THEN JsObject([dataType |-> JsString(<<"Set">>), value |-> JsArray(value.value)])
  ELSE value

\* JSON.stringify(value, replacer): the replacer is given a value before its
\* parts are written
RECURSIVE JSONStringify(_)
JSONStringify(value) ==
  LET v == replacer(value) IN
  IF v.jsType = "Object"
    THEN JsObject([f \in DOMAIN v.value |-> JSONStringify(v.value[f])])
  ELSE IF v.jsType = "Array"
    THEN JsArray([i \in DOMAIN v.value |-> JSONStringify(v.value[i])])
  ELSE v

\* new Map(entries) and new Set(values) of values that are objects
NewMap(entries) == JsMap([i \in DOMAIN entries.value |-> entries.value[i].value])
NewSet(values) == JsSet(values.value)

\* lines 301-310
reviver(value) ==
  IF value.jsType = "Object" /\ "dataType" \in DOMAIN value.value
    THEN IF value.value.dataType = JsString(<<"Map">>) THEN NewMap(value.value.value)
         ELSE IF value.value.dataType = JsString(<<"Set">>) THEN NewSet(value.value.value)
         ELSE value
  ELSE value

\* JSON.parse(text, _reviver): the reviver is given a value after its parts
RECURSIVE JSONParse(_)
JSONParse(json) ==
  reviver(IF json.jsType = "Object"
            THEN JsObject([f \in DOMAIN json.value |-> JSONParse(json.value[f])])
          ELSE IF json.jsType = "Array"
            THEN JsArray([i \in DOMAIN json.value |-> JSONParse(json.value[i])])
          ELSE json)

\* lines 271-273: the text of the orders
RegistryStringifyOrders(r) == JsString(<<JSONStringify(r.ownerOrders)>>)

\* lines 327-335
RegistryParseConditionalOrders(serializedConditionalOrders) ==
  IF ~Truthy(serializedConditionalOrders) THEN JsMap(<<>>)
  ELSE JSONParse(serializedConditionalOrders.value[1])

\* lines 224-266: the batch of Registry.write
PutOnlyBatch(r) ==
  LET b1 == put(<<>>, getNetworkStorageKey(CONDITIONAL_ORDER_REGISTRY_VERSION_KEY, r.network),
                JsString(NumberToString(r.version)))
      b2 == put(b1, getNetworkStorageKey(CONDITIONAL_ORDER_REGISTRY_STORAGE_KEY, r.network),
                RegistryStringifyOrders(r))
      b3 == IF r.lastNotifiedError # JsNull
              THEN put(b2, getNetworkStorageKey(LAST_NOTIFIED_ERROR_STORAGE_KEY, r.network),
                       toISOString(r.lastNotifiedError))
              ELSE b2
  IN IF r.lastProcessedBlock # JsNull
       THEN put(b3, getNetworkStorageKey(LAST_PROCESSED_BLOCK_STORAGE_KEY, r.network),
                JsString(NumberToString(r.lastProcessedBlock.value)))
       ELSE b3

RegistryBatch(r) ==
  LET b1 == put(<<>>, getNetworkStorageKey(CONDITIONAL_ORDER_REGISTRY_VERSION_KEY, r.network),
                JsString(NumberToString(r.version)))
      b2 == put(b1, getNetworkStorageKey(CONDITIONAL_ORDER_REGISTRY_STORAGE_KEY, r.network),
                RegistryStringifyOrders(r))
      b3 == IF r.lastNotifiedError # JsNull
              THEN put(b2, getNetworkStorageKey(LAST_NOTIFIED_ERROR_STORAGE_KEY, r.network),
                       toISOString(r.lastNotifiedError))
              ELSE del(b2, getNetworkStorageKey(LAST_NOTIFIED_ERROR_STORAGE_KEY, r.network))
  IN IF r.lastProcessedBlock # JsNull
       THEN put(b3, getNetworkStorageKey(LAST_PROCESSED_BLOCK_STORAGE_KEY, r.network),
                JsString(NumberToString(r.lastProcessedBlock.value)))
       ELSE del(b3, getNetworkStorageKey(LAST_PROCESSED_BLOCK_STORAGE_KEY, r.network))

\* lines 224-269: Registry.write, when the batch commits
RegistryWrite(d, r) == batchWrite(d, RegistryBatch(r))

\* lines 166-215: Registry.load
genesisBlockNumber == deploymentBlock

load(d, genesis) ==
  LET str == get(d, getNetworkStorageKey(CONDITIONAL_ORDER_REGISTRY_STORAGE_KEY, network))
      isoDate == get(d, getNetworkStorageKey(LAST_NOTIFIED_ERROR_STORAGE_KEY, network))
      blockNumber == get(d, getNetworkStorageKey(LAST_PROCESSED_BLOCK_STORAGE_KEY, network))
  IN [version |-> CONDITIONAL_ORDER_REGISTRY_VERSION, network |-> network,
      ownerOrders |-> RegistryParseConditionalOrders(IF Truthy(str) THEN str ELSE JsUndefined),
      lastNotifiedError |-> IF Truthy(isoDate) THEN NewDate(isoDate) ELSE JsNull,
      lastProcessedBlock |-> IF Truthy(blockNumber) THEN JsNumber(Number(blockNumber.value))
                             ELSE JsNumber(genesis)]

\* Array.from(map.values())
MapValues(map) == JsArray([i \in DOMAIN map.value |-> map.value[i][2]])

\* Array.prototype.flatMap with the callback (o) => o: a result that is an
\* array is spread, any other result is one element
RECURSIVE Spread(_)
Spread(values) ==
  IF values = <<>> THEN <<>>
  ELSE (IF Head(values).jsType = "Array" THEN Head(values).value ELSE <<Head(values)>>)
       \o Spread(Tail(values))

flatMapIdentity(array) == JsArray(Spread(array.value))

\* lines 217-219: get numOrders
numOrders(r) == Len(flatMapIdentity(MapValues(r.ownerOrders)).value)

\* the registries the store is exercised with
StoredOrder(tx, discrete) ==
  JsObject([tx |-> JsString(<<tx>>),
            params |-> JsObject([handler |-> JsString(<<"h1">>), salt |-> JsString(<<tx>>),
                                 staticInput |-> JsString(<<"i1">>)]),
            proof |-> JsNull,
            orders |-> JsMap([i \in 1..Len(discrete) |->
                                <<JsString(<<discrete[i]>>), JsString(<<"SUBMITTED">>)>>])])

OwnerOrdersValues ==
  {JsMap(<<>>),
   JsMap(<< <<JsString(<<"A">>), JsSet(<<>>)>> >>),
   JsMap(<< <<JsString(<<"A">>), JsSet(<<StoredOrder("t1", <<>>)>>)>> >>),
   JsMap(<< <<JsString(<<"A">>), JsSet(<<StoredOrder("t1", <<>>), StoredOrder("t2", <<"uid1">>),
                                         StoredOrder("t3", <<>>)>>)>> >>),
   JsMap(<< <<JsString(<<"A">>), JsSet(<<StoredOrder("t1", <<"uid1">>)>>)>>,
            <<JsString(<<"B">>), JsSet(<<StoredOrder("t2", <<>>)>>)>> >>)}

Cursors == {JsNull, JsNumber(0), JsNumber(deploymentBlock + 1)}
NotifiedErrors == {JsNull, JsDate(1)}

NewRegistry(oo, lastNotifiedError, cursor) ==
  [version |-> CONDITIONAL_ORDER_REGISTRY_VERSION, network |-> network, ownerOrders |-> oo,
   lastNotifiedError |-> lastNotifiedError, lastProcessedBlock |-> cursor]

NotLoaded == [version |-> 0]

StoreIdle ==
  /\ db = EmptyDb
  /\ registry = NewRegistry(JsMap(<<>>), JsNull, JsNull)
  /\ loaded = NotLoaded
  /\ storeOp = "none"

\* await registry.write(): the batch commits
StoreWrite ==
  /\ db' = RegistryWrite(db, registry)
  /\ storeOp' = "write"
  /\ UNCHANGED <<registry, loaded>>

\* await registry.write() rejects: nothing of the batch is in the store
StoreWriteFails ==
  /\ storeOp' = "writeFailed"
  /\ UNCHANGED <<db, registry, loaded>>

\* a key is not in the store
StoreMissingKey ==
  \E key \in StorageKeys :
    /\ db' = [db EXCEPT ![key] = JsUndefined]
    /\ storeOp' = "missing"
    /\ UNCHANGED <<registry, loaded>>

\* Registry.load
StoreLoad ==
  /\ loaded' = load(db, genesisBlockNumber)
  /\ storeOp' = "load"
  /\ UNCHANGED <<db, registry>>

\* the cursor and the time of the last notified error are assigned
RegistryAssign ==
  \E cursor \in Cursors, lastNotifiedError \in NotifiedErrors :
    /\ registry' = [registry EXCEPT !.lastProcessedBlock = cursor,
                                    !.lastNotifiedError = lastNotifiedError]
    /\ storeOp' = "assign"
    /\ UNCHANGED <<db, loaded>>

\* ------------------------------------------------------------------------
\* pollContractForEvents: the logs of the topic, decoded and filtered
\* ------------------------------------------------------------------------
MaxLogs == 3

\* the data of a log: the owner it encodes, and whether it decodes as a
\* ConditionalOrderCreated event
LogData == [owner : Owners, valid : BOOLEAN]

\* provider.getLogs: the logs of the topic in the order of the RPC
LogLists ==
  UNION {[1..n -> LogData] : n \in 0..MaxLogs}

getLogs(datas) == [i \in 1..Len(datas) |-> [logIndex |-> i, data |-> datas[i]]]

\* context.addresses: undefined, or a list of owners
NoAddresses == [configured |-> FALSE, list |-> <<>>]
AllowLists ==
  {NoAddresses} \cup {[configured |-> TRUE, list |-> l] : l \in {<<>>, <<"A">>, <<"B", "A">>}}

\* Array.prototype.includes
includes(list, x) == \E i \in 1..Len(list) : list[i] = x

\* lines 568-581: composableCow.interface.decodeEventLog in a try block; the
\* event is the decoded log together with the log, or null when it throws
Null == [null |-> TRUE]
decodeEventLog(log) ==
  IF log.data.valid
    THEN [args |-> [owner |-> log.data.owner], logIndex |-> log.logIndex, data |-> log.data]
    ELSE Null

\* line 582: .filter((e) => e !== null)
RECURSIVE filterNotNull(_)
filterNotNull(seq) ==
  IF seq = <<>> THEN <<>>
  ELSE (IF Head(seq) # Null THEN <<Head(seq)>> ELSE <<>>) \o filterNotNull(Tail(seq))

\* lines 583-585: .filter((e) => addresses ? addresses.includes(e.args.owner) : true)
RECURSIVE filterAddresses(_, _)
filterAddresses(seq, allowList) ==
  IF seq = <<>> THEN <<>>
  ELSE (IF allowList.configured
          THEN (IF includes(allowList.list, Head(seq).args.owner)
                  THEN <<Head(seq)>> ELSE <<>>)
          ELSE <<Head(seq)>>)
       \o filterAddresses(Tail(seq), allowList)

\* lines 566-586: the map over the logs and the two filters
EmptyListKeepsAll(logs, allowList) ==
  filterAddresses(filterNotNull([i \in 1..Len(logs) |-> decodeEventLog(logs[i])]),
                  IF allowList.list = <<>> THEN NoAddresses ELSE allowList)

ConditionalOrderCreatedEvents(logs, allowList) ==
  filterAddresses(filterNotNull([i \in 1..Len(logs) |-> decodeEventLog(logs[i])]),
                  allowList)

NotPolled == [polled |-> FALSE, value |-> <<>>]

PollIdle ==
  /\ rpcLogs = <<>>
  /\ addresses = NoAddresses
  /\ polledEvents = NotPolled

\* a call of pollContractForEvents
PollCall ==
  /\ ~polledEvents.polled
  /\ polledEvents' = [polled |-> TRUE, value |-> ConditionalOrderCreatedEvents(rpcLogs, addresses)]
  /\ UNCHANGED <<rpcLogs, addresses>>

\* ------------------------------------------------------------------------
\* run and stop
\* ------------------------------------------------------------------------
NoReturn == [block |-> 0, blockError |-> FALSE, settled |-> "none"]

RunIdle ==
  /\ writeFailed = FALSE
  /\ returned = NoReturn
  /\ exitCause = "none"

\* ------------------------------------------------------------------------
\* The registries of several networks over one store
\* ------------------------------------------------------------------------
NetIdle == written = [net \in Networks |-> NotLoaded]

\* await registry.write() of the registry of a network: the batch commits
NetWrite ==
  \E net \in Networks :
    LET r == [registry EXCEPT !.network = net] IN
    /\ db' = RegistryWrite(db, r)
    /\ written' = [written EXCEPT ![net] = r]
    /\ storeOp' = "write"
    /\ UNCHANGED <<registry, loaded>>

\* the orders, the cursor and the time of the last notified error of the
\* registry that writes next
NetRegistry ==
  \E oo \in OwnerOrdersValues, cursor \in Cursors, lastNotifiedError \in NotifiedErrors :
    /\ registry' = NewRegistry(oo, lastNotifiedError, cursor)
    /\ storeOp' = "assign"
    /\ UNCHANGED <<db, loaded, written>>

\* ------------------------------------------------------------------------
\* actions/utils/logging.ts
\* ------------------------------------------------------------------------
MaxCalls == 5

\* the console methods that are called, and the level each wrapper logs with
\* (lines 76-80)
Methods == {"log", "warn", "error"}
LevelOf(method) == IF method = "log" THEN "info" ELSE method

\* the arguments of a call: none, a message, a message and a meta value; the
\* message of the k-th call is k
DataOf(k, n) == SubSeq(<<k, "meta">>, 1, n)

Undefined == [undefined |-> TRUE]

\* lines 85-94
getLoggingMessage(level, data) ==
  IF Len(data) > 1 THEN [level |-> level, message |-> Head(data), meta |-> Tail(data)]
  ELSE IF Len(data) = 1 THEN [level |-> level, message |-> data[1], meta |-> <<>>]
  ELSE Undefined

\* lines 37-43: the buffer and what winston was given, after the call
PrintAndKeepBuffer(buf, forwarded) == [buffer |-> buf, winstonLog |-> forwarded \o buf]

printAndClearBuffer(buf, forwarded) == [buffer |-> <<>>, winstonLog |-> forwarded \o buf]

\* lines 45-72: the wrapper of a console method
logWithLoggly(level, data, onlyIfError, buf, forwarded) ==
  LET loggingMessage == getLoggingMessage(level, data) IN
  IF loggingMessage = Undefined THEN [buffer |-> buf, winstonLog |-> forwarded]
  ELSE IF onlyIfError
    THEN IF level = "error"
           THEN LET printed == printAndClearBuffer(buf, forwarded)
                IN [buffer |-> printed.buffer,
                    winstonLog |-> Append(printed.winstonLog, loggingMessage)]
           ELSE [buffer |-> Append(buf, loggingMessage), winstonLog |-> forwarded]
    ELSE [buffer |-> buf, winstonLog |-> Append(forwarded, loggingMessage)]

LogIdle ==
  /\ initialized = FALSE
  /\ logOnlyIfError = FALSE
  /\ buffer = <<>>
  /\ winstonLog = <<>>
  /\ consoleCalls = <<>>

\* lines 7-81: initLogging(logglyToken, tags, logOnlyIfError)
InitLogging ==
  \E flag \in BOOLEAN :
    /\ Len(consoleCalls) < MaxCalls
    /\ consoleCalls' = Append(consoleCalls, [method |-> "initLogging", flag |-> flag,
                                             data |-> <<>>])
    /\ IF initialized
         THEN UNCHANGED <<initialized, logOnlyIfError>>
         ELSE initialized' = TRUE /\ logOnlyIfError' = flag
    /\ UNCHANGED <<buffer, winstonLog>>

\* a call of console.log, console.warn or console.error: the original method
\* before initLogging, its wrapper afterwards
ConsoleCall ==
  \E method \in Methods, n \in 0..2 :
    LET data == DataOf(Len(consoleCalls) + 1, n)
        after == logWithLoggly(LevelOf(method), data, logOnlyIfError, buffer, winstonLog)
    IN /\ Len(consoleCalls) < MaxCalls
       /\ consoleCalls' = Append(consoleCalls, [method |-> method, flag |-> FALSE,
                                                data |-> data])
       /\ IF initialized
            THEN buffer' = after.buffer /\ winstonLog' = after.winstonLog
            ELSE UNCHANGED <<buffer, winstonLog>>
       /\ UNCHANGED <<initialized, logOnlyIfError>>

\* ------------------------------------------------------------------------
\* domain/chainContext.ts: the refresh of the filter policy in processBlock
\* ------------------------------------------------------------------------
MaxFilterBlock == 24

FILTER_FREQUENCY_SECS == 60 * 60

\* SupportedChainId: mainnet, Gnosis Chain, Sepolia
MAINNET == 1
GNOSIS_CHAIN == 100
SEPOLIA == 11155111
SupportedChainIds == {MAINNET, GNOSIS_CHAIN, SEPOLIA}

\* the division of two numbers whose quotient is a whole number
Divide(a, b) == a \div b

\* line 780: 5 seconds for gnosis, 12 seconds for mainnet
TwelveSecondsEverywhere(chainId) == 12

secondsPerBlock(chainId) == IF chainId = GNOSIS_CHAIN THEN 5 ELSE 12

\* lines 778-780
blocksPerFilterFrequency(chainId) == Divide(FILTER_FREQUENCY_SECS, secondsPerBlock(chainId))

\* line 783: the left-hand side of the comparison with 0
refreshModulo(chainId, number) ==
  number % Divide(FILTER_FREQUENCY_SECS, blocksPerFilterFrequency(chainId))

\* lines 781-784: filterPolicy && ... == 0
shouldReloadPolicies(hasPolicy, chainId, number) ==
  hasPolicy /\ refreshModulo(chainId, number) = 0

NoFilterCall ==
  [chainId |-> 0, number |-> 0, filterPolicy |-> FALSE, called |-> FALSE,
   modulo |-> 0, reloaded |-> FALSE]

FilterIdle == filterCall = NoFilterCall

\* processBlock of the chain watcher up to line 789
FilterProcessBlock ==
  /\ ~filterCall.called
  /\ filterCall' = [filterCall EXCEPT
       !.called = TRUE,
       !.modulo = refreshModulo(filterCall.chainId, filterCall.number),
       !.reloaded = shouldReloadPolicies(filterCall.filterPolicy, filterCall.chainId,
                                         filterCall.number)]

AuxIdle == NetIdle /\ LogIdle /\ FilterIdle

\* ------------------------------------------------------------------------
\* ChainContext.warmUp
\* ------------------------------------------------------------------------
PAGE_SIZE_DEFAULT == 5000

\* the pageSize option: absent, or a number of blocks
Absent == -1
PageSizeOptions == {Absent, 0, 2}

\* line 109: pageSize ?? PAGE_SIZE_DEFAULT
pageSizeOrDefault(option) == IF option = Absent THEN PAGE_SIZE_DEFAULT ELSE option

PageSizes == {pageSizeOrDefault(option) : option \in PageSizeOptions}

\* a first start with --one-shot: nothing persisted, the chain below the
\* deployment block
WarmInit ==
  /\ ownerOrders = <<>>
  /\ lastOp = NoOp
  /\ latestRoot = <<>>
  /\ pageSize \in PageSizes
  /\ oneShot = TRUE
  /\ processEveryNumBlocks \in 1..MaxEvery
  /\ eventBlocks = {}
  /\ tip = FirstHeight /\ hashes = [h \in Heights |-> 0] /\ fork = 0 /\ reorged = FALSE
  /\ lastProcessedBlock = NoBlock /\ store = EmptyStore
  /\ pc = "start" /\ sync = "SYNCING" /\ fromBlock = 0 /\ toBlock = 0
  /\ currentBlock = NoBlock /\ lpbLocal = NoBlock /\ queue = <<>> /\ pageOrder = <<>>
  /\ lastBlockReceived = NoBlock /\ handlers = <<>> /\ reorgsTotal = 0 /\ reorgDepth = 0
  /\ handed = {}
  /\ cursorAtStart = NoBlock /\ lastProc = NoProc /\ restarts = 0
  /\ queries = <<<<>>>> /\ tipAtStart = NoTip
  /\ inPod = "unread" /\ storeOpen = TRUE /\ exitCode = Running /\ lastCheck = NoCheck
  /\ otherChains = <<>>
  /\ StoreIdle /\ PollIdle /\ RunIdle /\ AuxIdle

\* lines 176-188: the start block and the first read of the tip
WarmUpStart ==
  /\ pc = "start"
  /\ lpbLocal' = lastProcessedBlock
  /\ fromBlock' = IF lastProcessedBlock # NoBlock
                    THEN lastProcessedBlock.number + 1 ELSE deploymentBlock
  /\ currentBlock' = Block(tip)
  /\ tipAtStart' = tip
  /\ pc' = "page"
  /\ UNCHANGED <<regVars, cfgVars, chainVars, lastProcessedBlock, store,
                 sync, toBlock, queue, pageOrder, liveVars, handed, cursorAtStart,
                 lastProc, restarts, queries, dogVars, dbVars, runVars>>

\* line 194: the end of the page
NumericPageEnd(from, size) == from + (size - 1)
PageEnd(from, size) == IF size = 0 THEN Latest ELSE from + (size - 1)

\* the queries with one more in the current pass
Issue(qs, query) == [qs EXCEPT ![Len(qs)] = Append(@, query)]

\* lines 194-251: the bounds of the page, the log query and the bucketing
WarmUpPage ==
  /\ pc = "page"
  /\ LET to0 == PageEnd(fromBlock, pageSize)
         refresh == to0 # Latest /\ to0 > currentBlock.number
         cur == IF refresh THEN Block(tip) ELSE currentBlock
         to1 == IF refresh /\ to0 > cur.number THEN cur.number ELSE to0
     IN /\ currentBlock' = cur
        /\ toBlock' = to1
        /\ IF refresh /\ fromBlock > cur.number
             THEN /\ sync' = "IN_SYNC"
                  /\ pc' = "tipCheck"
                  /\ UNCHANGED <<queue, pageOrder, queries>>
             ELSE /\ queue' = BlockOrder(pollContractForEvents(fromBlock, to1))
                  /\ queries' = Issue(queries, [from |-> fromBlock, to |-> to1,
                                                tip |-> cur.number])
                  /\ pageOrder' = <<>>
                  /\ pc' = IF queue' = <<>> THEN "pageEnd" ELSE "block"
                  /\ UNCHANGED sync
  /\ UNCHANGED <<regVars, cfgVars, chainVars, lastProcessedBlock, store,
                 fromBlock, lpbLocal, liveVars, handed, cursorAtStart, tipAtStart, lastProc, restarts,
                 dogVars, dbVars, runVars>>

\* lines 256-263 and 534-544: processBlockAndPersist up to the finally block
WarmUpProcessBlock ==
  /\ pc = "block"
  /\ LET b == Head(queue) IN
     \E outcomes \in [1..Len(LogsOf(b)) -> IngestOutcomes], pollOk \in BOOLEAN :
       LET r == processBlock(Block(b), LogsOf(b), outcomes, pollOk,
                             PollOverrides(Block(b), currentBlock), "warmUp")
       IN /\ ownerOrders' = r.oo
          /\ store' = r.store
          /\ lastProc' = r.proc
          /\ handed' = handed \cup {b}
          /\ pageOrder' = Append(pageOrder, b)
  /\ pc' = "persist"
  /\ UNCHANGED <<lastOp, latestRoot, cfgVars, chainVars, lastProcessedBlock,
                 sync, fromBlock, toBlock, currentBlock, lpbLocal, queue,
                 liveVars, cursorAtStart, tipAtStart, restarts, queries, dogVars, dbVars, runVars>>

\* persistLastProcessedBlock: the cursor is set and the registry written
PersistOnlyOnSuccess(cursor, block, failed) ==
  IF failed THEN cursor ELSE blockToRegistryBlock(block)

persistLastProcessedBlock(cursor, block, failed) == blockToRegistryBlock(block)

\* lines 533-547: what processBlockAndPersist gives its caller. The catch
\* takes the error of processBlock and logs it; the return in the finally
\* block makes the call settle as persistLastProcessedBlock does
processBlockAndPersist(block, blockError, writeRejects) ==
  [block |-> block.number, blockError |-> blockError,
   settled |-> IF writeRejects THEN "writeError" ELSE "cursor"]

\* lines 545-547: the finally block of processBlockAndPersist
WarmUpPersistBlock ==
  /\ pc = "persist"
  /\ LET b == Head(queue)
         cursor == persistLastProcessedBlock(lastProcessedBlock, Block(b), lastProc.error)
     IN /\ lastProcessedBlock' = cursor
        /\ store' = write(ownerOrders, cursor)
        /\ returned' = processBlockAndPersist(Block(b), lastProc.error, FALSE)
  /\ queue' = Tail(queue)
  /\ pc' = IF queue' = <<>> THEN "pageEnd" ELSE "block"
  /\ UNCHANGED <<regVars, cfgVars, chainVars, sync, fromBlock, toBlock, currentBlock,
                 lpbLocal, pageOrder, liveVars, histVars, dogVars, dbVars,
                 writeFailed, exitCause>>

\* lines 266-277: the cursor of the end of the page
WarmUpPageEnd ==
  /\ pc = "pageEnd"
  /\ LET block == IF toBlock = Latest THEN Block(tip) ELSE Block(toBlock)
         cursor == blockToRegistryBlock(block)
     IN /\ lastProcessedBlock' = cursor
        /\ store' = write(ownerOrders, cursor)
        /\ lpbLocal' = cursor
  /\ fromBlock' = IF toBlock # Latest THEN toBlock + 1 ELSE fromBlock
  /\ pc' = IF toBlock # Latest /\ toBlock # currentBlock.number THEN "page" ELSE "tipCheck"
  /\ UNCHANGED <<regVars, cfgVars, chainVars, sync, toBlock, currentBlock, queue,
                 pageOrder, liveVars, histVars, dogVars, dbVars, runVars>>

\* line 285: the tip read again against the cursor
TipAtOrAbove(tipNumber, lastProcessedBlockNumber) == tipNumber >= lastProcessedBlockNumber
InSyncAtTip(tipNumber, lastProcessedBlockNumber) == tipNumber = lastProcessedBlockNumber

\* lines 284-290: the sync state after the comparison of cursor and tip
SyncResetAfterTipCheck(chainSync, inSync) == IF inSync THEN "IN_SYNC" ELSE "SYNCING"
SyncAfterTipCheck(chainSync, inSync) == IF inSync THEN "IN_SYNC" ELSE chainSync

\* lines 291-306: the loop goes round while SYNCING; then warmUp returns when
\* one-shot and calls runBlockWatcher otherwise
LiveWhileSyncing(chainSync, once) == IF once THEN "done" ELSE "live"
AfterTipCheck(chainSync, once) ==
  IF chainSync = "SYNCING" THEN "page" ELSE IF once THEN "done" ELSE "live"

\* lines 279-307: the tip is read again; in sync when the cursor has reached it
WarmUpTipCheck ==
  /\ pc = "tipCheck"
  /\ LET cur == Block(tip)
         lastProcessedBlockNumber == IF lpbLocal = NoBlock THEN 0 ELSE lpbLocal.number
         inSync == InSyncAtTip(cur.number, lastProcessedBlockNumber)
     IN /\ currentBlock' = cur
        /\ sync' = SyncAfterTipCheck(sync, inSync)
        /\ fromBlock' = IF inSync THEN fromBlock ELSE lastProcessedBlockNumber + 1
        /\ pc' = AfterTipCheck(sync', oneShot)
        /\ lastBlockReceived' = IF pc' = "live" THEN cur ELSE lastBlockReceived
        /\ queries' = IF pc' = "page" THEN Append(queries, <<>>) ELSE queries
  /\ UNCHANGED <<regVars, cfgVars, chainVars, lastProcessedBlock, store,
                 toBlock, lpbLocal, queue, pageOrder,
                 handlers, reorgsTotal, reorgDepth, handed, cursorAtStart, tipAtStart, lastProc,
                 restarts, dogVars, dbVars, runVars>>

\* the process stops during warm-up and is started again:
\* Registry.load reads the store, warmUp starts over
Restart ==
  /\ pc \in {"page", "block", "persist", "pageEnd", "tipCheck"}
  /\ restarts < MaxRestarts
  /\ restarts' = restarts + 1
  /\ ownerOrders' = parseConditionalOrders(store.orders)
  /\ lastProcessedBlock' = store.cursor
  /\ cursorAtStart' = store.cursor
  /\ tipAtStart' = NoTip
  /\ pc' = "start" /\ sync' = "SYNCING" /\ fromBlock' = 0 /\ toBlock' = 0
  /\ currentBlock' = NoBlock /\ lpbLocal' = NoBlock /\ queue' = <<>> /\ pageOrder' = <<>>
  /\ lastProc' = NoProc
  /\ queries' = <<<<>>>>
  /\ UNCHANGED <<lastOp, latestRoot, cfgVars, chainVars, store, liveVars, handed, dogVars, dbVars, runVars>>

\* ------------------------------------------------------------------------
\* ChainContext.runBlockWatcher: the 'block' handler
\* ------------------------------------------------------------------------
RemoveAt(seq, i) == SubSeq(seq, 1, i - 1) \o SubSeq(seq, i + 1, Len(seq))

IsReorgStrict(number, block, last) ==
  number < last.number /\ block.hash # last.hash

IsReorg(number, block, last) ==
  number <= last.number /\ block.hash # last.hash

\* lines 324-341: the header arrives; reorg detection; lastBlockReceived
HandlerGetBlock ==
  \E i \in 1..Len(handlers) :
    LET h == handlers[i] IN
    /\ h.stage = "getBlock"
    /\ IF h.num > tip
         THEN \* getBlock gives null: the handler throws and logs
              /\ handlers' = RemoveAt(handlers, i)
              /\ UNCHANGED <<lastBlockReceived, reorgsTotal, reorgDepth>>
         ELSE LET block == Block(h.num) IN
              /\ IF IsReorg(h.num, block, lastBlockReceived)
                   THEN /\ reorgsTotal' = reorgsTotal + 1
                        /\ reorgDepth' = lastBlockReceived.number - h.num + 1
                   ELSE UNCHANGED <<reorgsTotal, reorgDepth>>
              /\ lastBlockReceived' = block
              /\ handlers' = [handlers EXCEPT ![i] = [@ EXCEPT !.stage = "getLogs",
                                                               !.block = block]]
    /\ UNCHANGED <<regVars, cfgVars, chainVars, lastProcessedBlock, store, warmVars, histVars, dogVars, dbVars, runVars>>

\* lines 356-361: getBlock or getLogs throws; the handler logs and ends
HandlerRpcError ==
  \E i \in 1..Len(handlers) :
    /\ handlers[i].stage \in {"getBlock", "getLogs"}
    /\ handlers' = RemoveAt(handlers, i)
    /\ UNCHANGED <<regVars, cfgVars, chainVars, lastProcessedBlock, store, warmVars,
                   lastBlockReceived, reorgsTotal, reorgDepth, histVars, dogVars, dbVars, runVars>>

\* lines 343-355 and 534-544: the logs of the block arrive (a read of the
\* chain, which does not change below the tip), then processBlockAndPersist
\* up to the finally block
HandlerProcess ==
  \E i \in 1..Len(handlers) :
    LET h == handlers[i] IN
    /\ h.stage = "getLogs"
    /\ IF h.num > tip
         THEN \* getBlock gives null: nothing is processed and nothing persisted
              /\ handlers' = RemoveAt(handlers, i)
              /\ UNCHANGED <<ownerOrders, store, lastProc, handed>>
         ELSE \E outcomes \in [1..Len(LogsOf(h.num)) -> LiveOutcomes], pollOk \in BOOLEAN :
                LET r == processBlock(Block(h.num), LogsOf(h.num), outcomes, pollOk,
                                      PollOverrides(Block(h.num), NoBlock), "live")
                IN /\ ownerOrders' = r.oo
                   /\ store' = r.store
                   /\ lastProc' = r.proc
                   /\ handed' = handed \cup {h.num}
                   /\ handlers' = [handlers EXCEPT ![i] =
                                     [@ EXCEPT !.stage = "persist", !.block = Block(h.num),
                                               !.error = r.proc.error]]
    /\ UNCHANGED <<lastOp, latestRoot, cfgVars, chainVars, lastProcessedBlock, warmVars,
                   lastBlockReceived, reorgsTotal, reorgDepth, cursorAtStart, tipAtStart, restarts,
                   queries, dogVars, dbVars, runVars>>

\* lines 545-547: the finally block of processBlockAndPersist
HandlerPersist ==
  \E i \in 1..Len(handlers) :
    LET h == handlers[i]
        cursor == persistLastProcessedBlock(lastProcessedBlock, h.block, h.error)
    IN
    /\ h.stage = "persist"
    /\ lastProcessedBlock' = cursor
    /\ store' = write(ownerOrders, cursor)
    /\ returned' = processBlockAndPersist(h.block, h.error, FALSE)
    /\ handlers' = RemoveAt(handlers, i)
    /\ UNCHANGED <<regVars, cfgVars, chainVars, warmVars,
                   lastBlockReceived, reorgsTotal, reorgDepth, histVars, dogVars, dbVars,
                   writeFailed, exitCause>>

\* lines 367-390: one round of the watchdog loop
\*   timeElapsed = now - lastBlockReceived.timestamp, whatever the clock gives
WatchdogTrippedLate(timeElapsed) == timeElapsed > watchdogTimeout

WatchdogTripped(timeElapsed) == timeElapsed >= watchdogTimeout

WatchdogCheck ==
  /\ pc = "live"
  /\ \E timeElapsed \in Elapsed :
       /\ lastCheck' = timeElapsed
       /\ IF WatchdogTripped(timeElapsed)
            THEN /\ inPod' \in IF inPod = "unread" THEN {"pod", "host"} ELSE {inPod}
                 /\ IF inPod' = "pod"
                      THEN /\ sync' = "UNKNOWN"
                           /\ UNCHANGED <<pc, storeOpen, exitCode, handlers, exitCause>>
                      ELSE \* registry.storage.close(), process.exit(1)
                           /\ storeOpen' = FALSE
                           /\ exitCode' = 1
                           /\ exitCause' = "watchdog"
                           /\ pc' = "exit"
                           /\ handlers' = <<>>
                           /\ UNCHANGED sync
            ELSE UNCHANGED <<pc, sync, storeOpen, exitCode, handlers, inPod, exitCause>>
  /\ UNCHANGED <<regVars, cfgVars, chainVars, lastProcessedBlock, store,
                 fromBlock, toBlock, currentBlock, lpbLocal, queue, pageOrder,
                 lastBlockReceived, reorgsTotal, reorgDepth, histVars, dbVars,
                 writeFailed, returned>>

\* ------------------------------------------------------------------------
\* run and stop: the exits of the process
\* ------------------------------------------------------------------------

\* the exitCode argument of stop when the caller gives none
NoCode == -1

\* part_001 lines 217-232: stop waits for the API server and the store with
\* Promise.allSettled, whether they close or fail, and calls
\* process.exit(exitCode || 0)
StopWithPromiseAll(code, apiStopped, dbClosed) ==
  IF apiStopped /\ dbClosed THEN (IF code = NoCode THEN 0 ELSE code) ELSE Running

stop(code, apiStopped, dbClosed) == IF code = NoCode \/ code = 0 THEN 0 ELSE code

\* stop(code) called because of cause: the store is closed while whatever
\* the watcher was doing is still under way, and the process ends
StopFor(cause, code) ==
  /\ exitCode = Running
  /\ pc # "idle"
  /\ \E apiStopped \in BOOLEAN, dbClosed \in BOOLEAN :
       exitCode' = stop(code, apiStopped, dbClosed)
  /\ exitCause' = cause
  /\ storeOpen' = FALSE
  /\ handlers' = IF exitCode' = Running THEN handlers ELSE <<>>
  /\ pc' = IF exitCode' = Running THEN pc ELSE "exit"

\* part_001 lines 193-196: SIGINT
Sigint ==
  /\ StopFor("sigint", NoCode)
  /\ UNCHANGED <<regVars, cfgVars, chainVars, lastProcessedBlock, store,
                 sync, fromBlock, toBlock, currentBlock, lpbLocal, queue, pageOrder,
                 lastBlockReceived, reorgsTotal, reorgDepth, histVars,
                 inPod, lastCheck, dbVars, writeFailed, returned>>

\* part_001 lines 188-191: unhandledRejection
UnhandledRejection ==
  /\ StopFor("unhandledRejection", 1)
  /\ UNCHANGED <<regVars, cfgVars, chainVars, lastProcessedBlock, store,
                 sync, fromBlock, toBlock, currentBlock, lpbLocal, queue, pageOrder,
                 lastBlockReceived, reorgsTotal, reorgDepth, histVars,
                 inPod, lastCheck, dbVars, writeFailed, returned>>

\* part_001 lines 199-206: ChainContext.init rejects (getNetwork or
\* Registry.load), the catch sets exitCode = 1 and the finally block stops
InitThrows ==
  /\ pc = "start"
  /\ StopFor("init", 1)
  /\ UNCHANGED <<regVars, cfgVars, chainVars, lastProcessedBlock, store,
                 sync, fromBlock, toBlock, currentBlock, lpbLocal, queue, pageOrder,
                 lastBlockReceived, reorgsTotal, reorgDepth, histVars,
                 inPod, lastCheck, dbVars, writeFailed, returned>>

\* part_001 lines 201-206: an RPC call of warmUp rejects (getBlock, getLogs)
WarmUpThrows ==
  /\ pc \in {"page", "block", "pageEnd", "tipCheck"}
  /\ StopFor("warmUp", 1)
  /\ UNCHANGED <<regVars, cfgVars, chainVars, lastProcessedBlock, store,
                 sync, fromBlock, toBlock, currentBlock, lpbLocal, queue, pageOrder,
                 lastBlockReceived, reorgsTotal, reorgDepth, histVars,
                 inPod, lastCheck, dbVars, writeFailed, returned>>

\* part_000 lines 512-516 in warm-up: the cursor is assigned, registry.write
\* rejects, warmUp rejects with it and run stops with exitCode 1
WarmUpWriteFails ==
  /\ pc \in {"persist", "pageEnd"}
  /\ LET block == IF pc = "persist" THEN Block(Head(queue))
                  ELSE IF toBlock = Latest THEN Block(tip) ELSE Block(toBlock)
     IN /\ lastProcessedBlock' = blockToRegistryBlock(block)
        /\ returned' = IF pc = "persist"
                         THEN processBlockAndPersist(block, lastProc.error, TRUE)
                         ELSE returned
  /\ writeFailed' = TRUE
  /\ StopFor("warmUp", 1)
  /\ UNCHANGED <<regVars, cfgVars, chainVars, store,
                 sync, fromBlock, toBlock, currentBlock, lpbLocal, queue, pageOrder,
                 lastBlockReceived, reorgsTotal, reorgDepth, histVars,
                 inPod, lastCheck, dbVars>>

\* part_000 lines 512-516 and 356-361 in the live tail: the cursor is
\* assigned, registry.write rejects, processBlockAndPersist rejects with it
\* and the catch of the handler logs the error
HandlerWriteFails ==
  \E i \in 1..Len(handlers) :
    LET h == handlers[i] IN
    /\ h.stage = "persist"
    /\ lastProcessedBlock' = blockToRegistryBlock(h.block)
    /\ returned' = processBlockAndPersist(h.block, h.error, TRUE)
    /\ writeFailed' = TRUE
    /\ handlers' = RemoveAt(handlers, i)
    /\ UNCHANGED <<regVars, cfgVars, chainVars, store, warmVars,
                   lastBlockReceived, reorgsTotal, reorgDepth, histVars, dogVars, dbVars,
                   exitCause>>

\* part_001 lines 201-210: warmUp returns (one-shot) and run stops with
\* exitCode 0
RunReturns ==
  /\ pc = "done"
  /\ StopFor("warmUpReturned", 0)
  /\ UNCHANGED <<regVars, cfgVars, chainVars, lastProcessedBlock, store,
                 sync, fromBlock, toBlock, currentBlock, lpbLocal, queue, pageOrder,
                 lastBlockReceived, reorgsTotal, reorgDepth, histVars,
                 inPod, lastCheck, dbVars, writeFailed, returned>>

\* the last restart of a watcher that runs on into the live tail: the store
\* holds the order created in block LiveStart and the cursor of that block,
\* which is the tip
RestartInit ==
  /\ lastOp = NoOp
  /\ latestRoot = <<>>
  /\ pageSize = pageSizeOrDefault(Absent)
  /\ oneShot = FALSE
  /\ processEveryNumBlocks = 1
  /\ eventBlocks = {LiveStart}
  /\ tip = LiveStart /\ hashes = [h \in Heights |-> 0] /\ fork = 0 /\ reorged = FALSE
  /\ ownerOrders = IngestEvents([oo |-> <<>>, store |-> EmptyStore, cursor |-> NoBlock,
                                 error |-> FALSE, receipts |-> 0, skipped |-> 0,
                                 steps |-> <<>>, writes |-> 0],
                                LogsOf(LiveStart),
                                [i \in 1..Len(LogsOf(LiveStart)) |-> "ok"]).oo
  /\ lastProcessedBlock = blockToRegistryBlock(Block(LiveStart))
  /\ store = write(ownerOrders, lastProcessedBlock)
  /\ pc = "start" /\ sync = "SYNCING" /\ fromBlock = 0 /\ toBlock = 0
  /\ currentBlock = NoBlock /\ lpbLocal = NoBlock
  /\ queue = <<>> /\ pageOrder = <<>>
  /\ lastBlockReceived = NoBlock
  /\ handlers = <<>> /\ reorgsTotal = 0 /\ reorgDepth = 0
  /\ handed = eventBlocks
  /\ cursorAtStart = lastProcessedBlock /\ lastProc = NoProc /\ restarts = MaxRestarts
  /\ queries = <<<<>>>> /\ tipAtStart = NoTip
  /\ inPod = "unread" /\ storeOpen = TRUE /\ exitCode = Running /\ lastCheck = NoCheck
  /\ otherChains = <<>>
  /\ StoreIdle /\ PollIdle /\ RunIdle /\ AuxIdle

Init == WarmInit \/ RestartInit

Next ==
  \/ NewBlock
  \/ WarmUpStart
  \/ WarmUpPage
  \/ WarmUpProcessBlock
  \/ WarmUpPersistBlock
  \/ WarmUpPageEnd
  \/ WarmUpTipCheck
  \/ Restart
  \/ LiveNewBlock
  \/ Reorg
  \/ HandlerGetBlock
  \/ HandlerRpcError
  \/ HandlerProcess
  \/ HandlerPersist
  \/ WatchdogCheck

\* the watcher: a one-shot warm-up from a first start, or a watcher restarted
\* at the tip that warms up and runs on into the live tail
Spec == Init /\ [][Next]_vars

\* run of a watcher restarted at the tip, one block above LiveStart, with or
\* without --one-shot: the store holds the order created in block LiveStart
\* and the cursor of the tip
RunInit ==
  /\ lastOp = NoOp
  /\ latestRoot = <<>>
  /\ pageSize = pageSizeOrDefault(Absent)
  /\ oneShot \in BOOLEAN
  /\ processEveryNumBlocks = 1
  /\ eventBlocks = {LiveStart}
  /\ tip = LiveStart + 1 /\ hashes = [h \in Heights |-> 0] /\ fork = 0 /\ reorged = FALSE
  /\ ownerOrders = IngestEvents([oo |-> <<>>, store |-> EmptyStore, cursor |-> NoBlock,
                                 error |-> FALSE, receipts |-> 0, skipped |-> 0,
                                 steps |-> <<>>, writes |-> 0],
                                LogsOf(LiveStart),
                                [i \in 1..Len(LogsOf(LiveStart)) |-> "ok"]).oo
  /\ lastProcessedBlock = blockToRegistryBlock(Block(tip))
  /\ store = write(ownerOrders, lastProcessedBlock)
  /\ pc = "start" /\ sync = "SYNCING" /\ fromBlock = 0 /\ toBlock = 0
  /\ currentBlock = NoBlock /\ lpbLocal = NoBlock
  /\ queue = <<>> /\ pageOrder = <<>>
  /\ lastBlockReceived = NoBlock
  /\ handlers = <<>> /\ reorgsTotal = 0 /\ reorgDepth = 0
  /\ handed = eventBlocks
  /\ cursorAtStart = lastProcessedBlock /\ lastProc = NoProc /\ restarts = MaxRestarts
  /\ queries = <<<<>>>> /\ tipAtStart = NoTip
  /\ inPod = "unread" /\ storeOpen = TRUE /\ exitCode = Running /\ lastCheck = NoCheck
  /\ otherChains = <<>>
  /\ StoreIdle /\ PollIdle /\ RunIdle /\ AuxIdle

\* the watcher under run: its exits, and registry writes that may fail
RunNext ==
  \/ NewBlock
  \/ WarmUpStart
  \/ WarmUpPage
  \/ WarmUpProcessBlock
  \/ WarmUpPersistBlock
  \/ WarmUpPageEnd
  \/ WarmUpTipCheck
  \/ LiveNewBlock
  \/ Reorg
  \/ HandlerGetBlock
  \/ HandlerRpcError
  \/ HandlerProcess
  \/ HandlerPersist
  \/ WatchdogCheck
  \/ Sigint
  \/ UnhandledRejection
  \/ InitThrows
  \/ WarmUpThrows
  \/ WarmUpWriteFails
  \/ HandlerWriteFails
  \/ RunReturns

SpecRun == RunInit /\ [][RunNext]_vars

\* a step of warm-up
WarmUpStep ==
  \/ WarmUpStart
  \/ WarmUpPage
  \/ WarmUpProcessBlock
  \/ WarmUpPersistBlock
  \/ WarmUpPageEnd
  \/ WarmUpTipCheck

WarmUpNext == NewBlock \/ WarmUpStep \/ Restart

\* the positions of warm-up and the steps that leave one of them for the
\* next: these are the steps of WarmUpStep, one of which is enabled at every
\* position (WarmUpAlwaysEnabled, WarmUpAdvanceIsStep)
WarmPositions == {"start", "page", "block", "persist", "pageEnd", "tipCheck"}

WarmUpAdvance ==
  /\ pc \in WarmPositions
  /\ pc' \in (WarmPositions \cup {"done", "live"}) \ {pc, "start"}

WarmUpAlwaysEnabled == pc \in WarmPositions => ENABLED WarmUpStep

WarmUpAdvanceIsStep == [][WarmUpAdvance <=> WarmUpStep]_vars

\* warm-up alone, every awaited call of which returns: the chain grows up to
\* MaxTip and the process is restarted up to MaxRestarts times
SpecWarmUp == Init /\ [][WarmUpNext]_vars /\ WF_pc(WarmUpAdvance)

\* ------------------------------------------------------------------------
\* The registry driven through its exported operations
\* ------------------------------------------------------------------------
Txs == {"t1"}
Proofs == {NoProof} \cup {[merkleRoot |-> r] : r \in Roots}

FirstParams == CHOOSE v \in ParamValues : v.handler = "h1"

\* the lists of orders a proof can carry: none, one, the same twice, two
\* different
OrderLists ==
  {<<>>, <<FirstParams>>} \cup {<<FirstParams, w>> : w \in ParamValues}

\* decoded = 0: decodeEventLog throws, whatever the log holds
CreatedEvents ==
  {e \in [topic : {"ConditionalOrderCreated"}, tx : Txs, owner : Owners,
          params : ParamValues, decoded : 0..1] :
     e.decoded = 0 => (e.owner = OwnerList[1] /\ e.params = FirstParams)}

\* proof.data is read only when location = 1
MerkleEvents ==
  {e \in [topic : {"MerkleRootSet"}, tx : Txs, owner : Owners, root : Roots,
          location : 0..1, orders : OrderLists, fails : BOOLEAN, decoded : 0..1] :
     /\ e.location = 0 => (e.orders = <<>> /\ ~e.fails /\ e.decoded = 1)
     /\ e.decoded = 0 => (e.owner = OwnerList[1] /\ e.orders = <<>> /\ ~e.fails
                            /\ e.root = CHOOSE r \in Roots : TRUE)}

OtherEvents == {[topic |-> "Other", tx |-> t] : t \in Txs}

\* the params objects a caller of add can hold: one already in the registry,
\* or a new one
KnownParams ==
  UNION {{ownerOrders[o][i].params : i \in 1..Len(ownerOrders[o])} : o \in DOMAIN ownerOrders}

HasStaleRun(entries, root) ==
  \E i \in 1..(Len(entries) - 1) : IsStale(entries[i], root) /\ IsStale(entries[i + 1], root)

\* the watcher does not run while the registry is driven directly
WatcherIdle ==
  /\ pageSize = 0 /\ oneShot = TRUE /\ processEveryNumBlocks = 1 /\ eventBlocks = {}
  /\ tip = FirstHeight /\ hashes = [h \in Heights |-> 0] /\ fork = 0 /\ reorged = FALSE
  /\ lastProcessedBlock = NoBlock /\ store = EmptyStore
  /\ pc = "idle" /\ sync = "SYNCING" /\ fromBlock = 0 /\ toBlock = 0
  /\ currentBlock = NoBlock /\ lpbLocal = NoBlock /\ queue = <<>> /\ pageOrder = <<>>
  /\ lastBlockReceived = NoBlock /\ handlers = <<>> /\ reorgsTotal = 0 /\ reorgDepth = 0
  /\ handed = {}
  /\ cursorAtStart = NoBlock /\ lastProc = NoProc /\ restarts = 0
  /\ queries = <<<<>>>> /\ tipAtStart = NoTip
  /\ inPod = "unread" /\ storeOpen = TRUE /\ exitCode = Running /\ lastCheck = NoCheck
  /\ otherChains = <<>>
  /\ RunIdle

RegInit ==
  /\ ownerOrders = <<>>
  /\ lastOp = NoOp
  /\ latestRoot = <<>>
  /\ WatcherIdle
  /\ StoreIdle
  /\ PollIdle
  /\ AuxIdle

AddCall ==
  \E tx \in Txs, owner \in Owners, v \in ParamValues, proof \in Proofs, fresh \in BOOLEAN :
    /\ TotalOrders(ownerOrders) < MaxOrders
    /\ \E params \in IF fresh THEN {ParamsObject(v, FreshRef(ownerOrders))}
                     ELSE {p \in KnownParams : ParamsValue(p) = v} :
         /\ ownerOrders' = add(ownerOrders, tx, owner, params, proof)
         /\ lastOp' = [NoOp EXCEPT !.kind = "add"]
         /\ UNCHANGED latestRoot
    /\ UNCHANGED watchVars

FlushCall ==
  \E owner \in Owners, root \in Roots :
    /\ ownerOrders' = flush(ownerOrders, owner, root)
    /\ lastOp' = [NoOp EXCEPT !.kind = "flush", !.owner = owner, !.root = root,
                               !.mark = /\ owner \in DOMAIN ownerOrders
                                        /\ HasStaleRun(ownerOrders[owner], root)]
    /\ UNCHANGED latestRoot
    /\ UNCHANGED watchVars

RegisterEvent ==
  \E event \in CreatedEvents \cup MerkleEvents \cup OtherEvents :
    LET r == registerNewOrder(ownerOrders, event) IN
      /\ TotalOrders(r.oo) <= MaxOrders
      /\ ownerOrders' = r.oo
      /\ lastOp' = [NoOp EXCEPT !.kind = event.topic, !.mark = r.error, !.event = event]
      /\ latestRoot' = IF event.topic = "MerkleRootSet" /\ event.decoded > 0
                         THEN [o \in DOMAIN latestRoot \cup {event.owner} |->
                                 IF o = event.owner THEN event.root ELSE latestRoot[o]]
                         ELSE latestRoot
      /\ UNCHANGED watchVars

RegNext == AddCall \/ FlushCall

\* the registry driven by logs only, as the Block Processor drives it
SpecEvents == RegInit /\ [][RegisterEvent]_vars

SpecRegistry == RegInit /\ [][RegNext]_vars

\* ------------------------------------------------------------------------
\* The Registry of types.d.ts written to the store and loaded from it
\* ------------------------------------------------------------------------
Registries ==
  {NewRegistry(oo, lastNotifiedError, cursor) :
     oo \in OwnerOrdersValues, lastNotifiedError \in NotifiedErrors, cursor \in Cursors}

StoreInit ==
  /\ ownerOrders = <<>>
  /\ lastOp = NoOp
  /\ latestRoot = <<>>
  /\ WatcherIdle
  /\ db = EmptyDb
  /\ registry \in Registries
  /\ loaded = NotLoaded
  /\ storeOp = "none"
  /\ PollIdle
  /\ AuxIdle

StoreNext ==
  /\ \/ StoreWrite
     \/ StoreWriteFails
     \/ StoreMissingKey
     \/ StoreLoad
     \/ RegistryAssign
  /\ UNCHANGED <<regVars, cfgVars, chainVars, lastProcessedBlock, store, warmVars,
                 liveVars, histVars, dogVars, pollVars, auxVars, runVars>>

SpecStore == StoreInit /\ [][StoreNext]_vars

\* ------------------------------------------------------------------------
\* The registries of two networks written to one store
\* ------------------------------------------------------------------------
NetNext ==
  /\ \/ NetWrite
     \/ NetRegistry
  /\ UNCHANGED <<regVars, cfgVars, chainVars, lastProcessedBlock, store, warmVars,
                 liveVars, histVars, dogVars, pollVars, logVars, filterCall, runVars>>

SpecNetworks == StoreInit /\ [][NetNext]_vars

\* ------------------------------------------------------------------------
\* The filter policy refresh over chains and block numbers
\* ------------------------------------------------------------------------
FilterInit ==
  /\ ownerOrders = <<>>
  /\ lastOp = NoOp
  /\ latestRoot = <<>>
  /\ WatcherIdle
  /\ StoreIdle
  /\ PollIdle
  /\ NetIdle
  /\ LogIdle
  /\ filterCall \in {[NoFilterCall EXCEPT !.chainId = c, !.number = n, !.filterPolicy = f] :
                       c \in SupportedChainIds, n \in 0..MaxFilterBlock, f \in BOOLEAN}

FilterNext ==
  /\ FilterProcessBlock
  /\ UNCHANGED <<regVars, cfgVars, chainVars, lastProcessedBlock, store, warmVars,
                 liveVars, histVars, dogVars, db, registry, loaded, storeOp, pollVars,
                 written, logVars, runVars>>

SpecFilter == FilterInit /\ [][FilterNext]_vars

\* ------------------------------------------------------------------------
\* initLogging and the console calls of an action run
\* ------------------------------------------------------------------------
LogInit ==
  /\ ownerOrders = <<>>
  /\ lastOp = NoOp
  /\ latestRoot = <<>>
  /\ WatcherIdle
  /\ StoreIdle
  /\ PollIdle
  /\ AuxIdle

LogNext ==
  /\ \/ InitLogging
     \/ ConsoleCall
  /\ UNCHANGED <<regVars, cfgVars, chainVars, lastProcessedBlock, store, warmVars,
                 liveVars, histVars, dogVars, db, registry, loaded, storeOp, pollVars,
                 written, filterCall, runVars>>

SpecLogging == LogInit /\ [][LogNext]_vars

\* ------------------------------------------------------------------------
\* pollContractForEvents over the logs a query can return
\* ------------------------------------------------------------------------
PollInit ==
  /\ ownerOrders = <<>>
  /\ lastOp = NoOp
  /\ latestRoot = <<>>
  /\ WatcherIdle
  /\ StoreIdle
  /\ rpcLogs \in {getLogs(datas) : datas \in LogLists}
  /\ addresses \in AllowLists
  /\ polledEvents = NotPolled
  /\ AuxIdle

PollNext ==
  /\ PollCall
  /\ UNCHANGED <<regVars, cfgVars, chainVars, lastProcessedBlock, store, warmVars,
                 liveVars, histVars, dogVars, db, registry, loaded, storeOp, auxVars,
                 runVars>>

SpecPoll == PollInit /\ [][PollNext]_vars

\* ------------------------------------------------------------------------
\* processBlockAndPersist on a block that carries several logs
\* ------------------------------------------------------------------------
MaxEvents == 2

\* the logs a block can carry: an order created by either owner, and a
\* MerkleRootSet of owner A with one order in its proof, which decodes or not
BlockEvents ==
  {e \in CreatedEvents : e.decoded = 1 /\ e.params = FirstParams}
    \cup {e \in MerkleEvents : /\ e.owner = "A" /\ e.root = "r2" /\ e.location = 1
                               /\ e.orders = <<FirstParams>> /\ e.decoded = 1}

EventLists == UNION {[1..n -> BlockEvents] : n \in 0..MaxEvents}

BlockNumbers == {deploymentBlock, deploymentBlock + 1}

\* a registry that is empty, or holds a merkle order of owner A under root r1
BlockInit ==
  /\ ownerOrders \in {<<>>,
                      "A" :> <<NewConditionalOrder("t1", ParamsObject(FirstParams, 1),
                                                   [merkleRoot |-> "r1"])>>}
  /\ lastOp = NoOp
  /\ latestRoot = <<>>
  /\ pageSize = 0 /\ oneShot = TRUE /\ processEveryNumBlocks \in 1..MaxEvery
  /\ eventBlocks = {}
  /\ tip = LastHeight /\ hashes = [h \in Heights |-> 0] /\ fork = 0 /\ reorged = FALSE
  /\ lastProcessedBlock = NoBlock /\ store = write(ownerOrders, NoBlock)
  /\ pc = "idle" /\ sync = "SYNCING" /\ fromBlock = 0 /\ toBlock = 0
  /\ currentBlock = NoBlock /\ lpbLocal = NoBlock /\ queue = <<>> /\ pageOrder = <<>>
  /\ lastBlockReceived = NoBlock /\ handlers = <<>> /\ reorgsTotal = 0 /\ reorgDepth = 0
  /\ handed = {}
  /\ cursorAtStart = NoBlock /\ lastProc = NoProc /\ restarts = 0
  /\ queries = <<<<>>>> /\ tipAtStart = NoTip
  /\ inPod = "unread" /\ storeOpen = TRUE /\ exitCode = Running /\ lastCheck = NoCheck
  /\ otherChains = <<>>
  /\ StoreIdle /\ PollIdle /\ RunIdle /\ AuxIdle

\* part_000 lines 533-544: processBlock on the block and its logs, up to the
\* finally block
ProcessBlockCall ==
  /\ pc = "idle"
  /\ lastProc = NoProc
  /\ \E number \in BlockNumbers, events \in EventLists, pollOk \in BOOLEAN :
       \E outcomes \in [1..Len(events) -> IngestOutcomes] :
         LET r == processBlock(Block(number), events, outcomes, pollOk, NoOverrides, "block")
         IN /\ ownerOrders' = r.oo
            /\ store' = r.store
            /\ lastProc' = r.proc
  /\ pc' = "processed"
  /\ UNCHANGED <<lastOp, latestRoot, cfgVars, chainVars, lastProcessedBlock,
                 sync, fromBlock, toBlock, currentBlock, lpbLocal, queue, pageOrder,
                 liveVars, handed, cursorAtStart, tipAtStart, restarts, queries,
                 dogVars, dbVars, runVars>>

\* part_000 lines 545-547: the finally block
PersistBlockCall ==
  /\ pc = "processed"
  /\ LET block == Block(lastProc.block)
         cursor == persistLastProcessedBlock(lastProcessedBlock, block, lastProc.error)
     IN /\ lastProcessedBlock' = cursor
        /\ store' = write(ownerOrders, cursor)
        /\ returned' = processBlockAndPersist(block, lastProc.error, FALSE)
  /\ pc' = "persisted"
  /\ UNCHANGED <<regVars, cfgVars, chainVars, sync, fromBlock, toBlock, currentBlock,
                 lpbLocal, queue, pageOrder, liveVars, histVars, dogVars, dbVars,
                 writeFailed, exitCause>>

BlockNext == ProcessBlockCall \/ PersistBlockCall

SpecBlock == BlockInit /\ [][BlockNext]_vars

\* ------------------------------------------------------------------------
\* health
\* ------------------------------------------------------------------------

\* the chain id of the watcher's own context and those of the other contexts
ThisChain == 1
OtherChainIds == 2..MaxChains

\* static chains: Record<number, ChainContext>, as the sync state of each
chains == (ThisChain :> sync) @@ otherChains

\* Object.values of a record with integer keys: in ascending key order
RECURSIVE ValuesFrom(_, _)
ValuesFrom(record, keys) ==
  IF keys = {} THEN <<>>
  ELSE LET k == CHOOSE x \in keys : \A y \in keys : x <= y
       IN  <<record[k]>> \o ValuesFrom(record, keys \ {k})

ObjectValues(record) == ValuesFrom(record, DOMAIN record)

isHealthyLax(chainSync) == chainSync # "UNKNOWN"
isHealthy(chainSync) == chainSync = "IN_SYNC"

\* the reduce of the static health getter, on its overallHealth field
RECURSIVE reduceHealth(_, _)
reduceHealth(values, acc) ==
  IF values = <<>> THEN acc
  ELSE reduceHealth(Tail(values), acc /\ isHealthy(Head(values)))

overallHealth == reduceHealth(ObjectValues(chains), TRUE)

\* ChainContext.init of another network registers its context, which
\* starts SYNCING
ChainInit(c) ==
  /\ c \notin DOMAIN otherChains
  /\ otherChains' = otherChains @@ (c :> "SYNCING")
  /\ UNCHANGED <<regVars, pageSize, oneShot, processEveryNumBlocks, eventBlocks,
                 chainVars, lastProcessedBlock, store, warmVars, liveVars, histVars,
                 dogVars, dbVars, runVars>>

\* the warm-up of a context ends
ChainInSync(c) ==
  /\ chains[c] = "SYNCING"
  /\ IF c = ThisChain
       THEN sync' = "IN_SYNC" /\ UNCHANGED otherChains
       ELSE otherChains' = [otherChains EXCEPT ![c] = "IN_SYNC"] /\ UNCHANGED sync
  /\ UNCHANGED <<regVars, pageSize, oneShot, processEveryNumBlocks, eventBlocks,
                 chainVars, lastProcessedBlock, store, pc, fromBlock, toBlock,
                 currentBlock, lpbLocal, queue, pageOrder, liveVars, histVars, dogVars, dbVars, runVars>>

\* the watchdog of a live context, in a pod, finds its last block too old
ChainUnknown(c) ==
  /\ chains[c] = "IN_SYNC"
  /\ IF c = ThisChain
       THEN sync' = "UNKNOWN" /\ UNCHANGED otherChains
       ELSE otherChains' = [otherChains EXCEPT ![c] = "UNKNOWN"] /\ UNCHANGED sync
  /\ UNCHANGED <<regVars, pageSize, oneShot, processEveryNumBlocks, eventBlocks,
                 chainVars, lastProcessedBlock, store, pc, fromBlock, toBlock,
                 currentBlock, lpbLocal, queue, pageOrder, liveVars, histVars, dogVars, dbVars, runVars>>

HealthNext ==
  \/ \E c \in OtherChainIds : ChainInit(c)
  \/ \E c \in DOMAIN chains : ChainInSync(c)
  \/ \E c \in DOMAIN chains : ChainUnknown(c)

\* the contexts of a run over several networks and their sync states
SpecHealth == RegInit /\ [][HealthNext]_vars

\* ------------------------------------------------------------------------
\* Registry properties
\* ------------------------------------------------------------------------

\* C1: for every owner, no two conditional orders of the owner's set have
\* value-equal params (handler, salt, staticInput)
C1_UniqueParams ==
  \A o \in DOMAIN ownerOrders :
    \A i, j \in 1..Len(ownerOrders[o]) :
      i # j => ParamsValue(ownerOrders[o][i].params) # ParamsValue(ownerOrders[o][j].params)

\* C10: after flush(owner, R) the owner's set holds no order with a
\* non-null proof whose merkleRoot differs from R
C10_FlushLeavesNoStale ==
  (lastOp.kind = "flush" /\ lastOp.owner \in DOMAIN ownerOrders) =>
    \A i \in 1..Len(ownerOrders[lastOp.owner]) :
      ~IsStale(ownerOrders[lastOp.owner][i], lastOp.root)

\* a flush that met two stale orders next to each other
C10_Witness ==
  lastOp.kind = "flush" /\ lastOp.mark

\* C11: after any sequence of logs handled by _registerNewOrder, every order
\* of an owner that has a proof carries the root of the last MerkleRootSet
\* log decoded for that owner
C11_ProofsCarryLatestRoot ==
  \A o \in DOMAIN ownerOrders : \A i \in 1..Len(ownerOrders[o]) :
    ownerOrders[o][i].proof # NoProof =>
      /\ o \in DOMAIN latestRoot
      /\ ownerOrders[o][i].proof.merkleRoot = latestRoot[o]

\* a MerkleRootSet log whose handling failed part-way, after an order of the
\* new root was added
C11_Witness ==
  /\ lastOp.kind = "MerkleRootSet" /\ lastOp.mark
  /\ \E o \in DOMAIN ownerOrders :
       /\ o \in DOMAIN latestRoot /\ latestRoot[o] = "r2"
       /\ \E i \in 1..Len(ownerOrders[o]) :
            /\ ownerOrders[o][i].proof # NoProof
            /\ ownerOrders[o][i].proof.merkleRoot = "r2"

\* ------------------------------------------------------------------------
\* Watcher properties
\* ------------------------------------------------------------------------

\* C2: without a reorg, the number of the persisted cursor never decreases
C2_CursorNonDecreasing ==
  [][(~reorged' /\ store.cursor # NoBlock /\ store'.cursor # NoBlock)
       => store'.cursor.number >= store.cursor.number]_vars

\* C3: within a page, warm-up hands the blocks to the Block Processor in
\* strictly ascending order of block number
C3_AscendingPageOrder ==
  \A i, j \in 1..Len(pageOrder) : i < j => pageOrder[i] < pageOrder[j]

\* C4: the handler of a later notification has not started fetching the
\* events of its block while the handler of an earlier one has not finished
C4_OneBlockInFlight ==
  \A i, j \in 1..Len(handlers) : i < j => handlers[j].stage = "getBlock"

\* the step in which handler i leaves the given stage by going on
HandlerMoves(i, stage) ==
  /\ handlers[i].stage = stage
  /\ Len(handlers') = Len(handlers)
  /\ handlers'[i] # handlers[i]

\* the step in which the handler i that is about to persist finishes (the
\* process is not ended under it by the watchdog)
HandlerFinishes(i) ==
  /\ handlers[i].stage = "persist"
  /\ exitCode' = Running
  /\ handlers' = RemoveAt(handlers, i)

\* C5: every block handed to the Block Processor goes on to the persist step
\* whether or not its processing reported an error, and the persist step
\* sets lastProcessedBlock to that block and writes it to the store
C5_PersistRegardless ==
  [][/\ (pc = "block" /\ pc' # "start") => pc' = "persist"
     /\ (pc = "persist" /\ pc' \notin {"persist", "start"}) =>
          /\ lastProcessedBlock' = blockToRegistryBlock(Block(Head(queue)))
          /\ store'.cursor = lastProcessedBlock'
     /\ \A i \in 1..Len(handlers) :
          /\ (HandlerMoves(i, "getLogs") /\ handlers[i].num <= tip) =>
               handlers'[i].stage = "persist"
          /\ HandlerFinishes(i) =>
               /\ lastProcessedBlock' = blockToRegistryBlock(handlers[i].block)
               /\ store'.cursor = lastProcessedBlock'
    ]_vars

\* a block whose processing reported an error and whose cursor is persisted
C5_Witness ==
  /\ lastProc.error
  /\ lastProcessedBlock # NoBlock
  /\ lastProcessedBlock.number = lastProc.block
  /\ store.cursor = lastProcessedBlock
  /\ \/ lastProc.phase = "warmUp" /\ pc \in {"block", "pageEnd"}
     \/ lastProc.phase = "live" /\ handlers = <<>>

\* C6: at every point where warm-up can stop, every block with a log at or
\* below the persisted cursor has been handed to the Block Processor; after a
\* restart only blocks above the cursor it started from are handed to it; and
\* when warm-up ends every block with a log up to the cursor has been handed
C6_NoEventLostOrReapplied ==
  /\ (pc \in {"page", "block", "persist", "pageEnd", "tipCheck"} /\ store.cursor # NoBlock) =>
       \A b \in eventBlocks : b <= store.cursor.number => b \in handed
  /\ (lastProc.phase = "warmUp" /\ cursorAtStart # NoBlock) =>
       lastProc.block > cursorAtStart.number
  /\ (pc = "done" /\ lastProcessedBlock # NoBlock) =>
       \A b \in eventBlocks : b <= lastProcessedBlock.number => b \in handed

\* C7: the poll step ran for the processed block iff its number is a multiple
\* of processEveryNumBlocks; every event of the block went through the event
\* loop and, in warm-up, the block's cursor was persisted, whatever N is
C7_PollEveryN ==
  /\ lastProc.phase # "none" =>
       /\ lastProc.polled <=> (lastProc.block % processEveryNumBlocks = 0)
       /\ lastProc.events = Len(LogsOf(lastProc.block))
       /\ lastProc.receipts + lastProc.skipped = lastProc.events
  /\ (pc \in {"block", "pageEnd"} /\ pageOrder # <<>>) =>
       /\ lastProcessedBlock # NoBlock
       /\ lastProcessedBlock.number = pageOrder[Len(pageOrder)]

\* a block that is not a multiple of N: ingested and persisted, not polled
C7_Witness ==
  /\ lastProc.phase = "warmUp"
  /\ processEveryNumBlocks > 1
  /\ ~lastProc.polled
  /\ lastProc.receipts > 0
  /\ pc \in {"block", "pageEnd"}
  /\ lastProcessedBlock.number = lastProc.block

\* C8: when the header b of a notification arrives, reorgsTotal grows by one
\* and reorgDepth becomes lastBlockReceived.number - b.number + 1 exactly
\* when b.number <= lastBlockReceived.number and the hashes differ; the
\* handler goes on to fetch the logs of b either way; in every other step
\* neither metric changes
C8_ReorgExactly ==
  [][/\ \A i \in 1..Len(handlers) :
          (HandlerMoves(i, "getBlock") /\ handlers[i].num <= tip) =>
            LET b == Block(handlers[i].num) IN
            /\ handlers'[i].stage = "getLogs"
            /\ lastBlockReceived' = b
            /\ IF b.number <= lastBlockReceived.number /\ b.hash # lastBlockReceived.hash
                 THEN /\ reorgsTotal' = reorgsTotal + 1
                      /\ reorgDepth' = lastBlockReceived.number - b.number + 1
                      /\ reorgDepth' >= 1
                 ELSE /\ reorgsTotal' = reorgsTotal
                      /\ reorgDepth' = reorgDepth
     /\ (~\E i \in 1..Len(handlers) : HandlerMoves(i, "getBlock")) =>
          (reorgsTotal' = reorgsTotal /\ reorgDepth' = reorgDepth)
    ]_vars

\* the block at the tip was replaced and its notification counted as a reorg
\* of depth 1
C8_Witness ==
  /\ reorgsTotal = 1
  /\ reorgDepth = 1
  /\ fork = 1
  /\ lastBlockReceived = Block(tip)
  /\ hashes[tip] = 1

\* C9: however often a block is processed, an owner holds at most one order
\* for each distinct event handed to the Block Processor
C9_ReplayKeepsRegistry ==
  \A o \in DOMAIN ownerOrders :
    Len(ownerOrders[o]) <=
      Cardinality({b \in handed : \E k \in 1..Len(LogsOf(b)) : LogsOf(b)[k].owner = o})

\* C12: a watchdog check runs only once the watcher is live; one that finds
\* the last received block at least watchdogTimeout seconds old sets the state
\* to UNKNOWN and keeps the process and the store when running in a pod, and
\* otherwise closes the store and exits with status 1; a check below the
\* timeout changes neither the state nor the store
C12_WatchdogReaction ==
  [][lastCheck' # lastCheck =>
       /\ pc = "live"
       /\ IF lastCheck' >= watchdogTimeout
            THEN /\ inPod' \in {"pod", "host"}
                 /\ inPod' = "pod" =>
                      /\ sync' = "UNKNOWN"
                      /\ pc' = "live" /\ storeOpen' /\ exitCode' = Running
                 /\ inPod' = "host" =>
                      /\ ~storeOpen' /\ exitCode' = 1 /\ pc' = "exit"
            ELSE /\ sync' = sync /\ storeOpen' = storeOpen
                 /\ exitCode' = exitCode /\ pc' = pc
    ]_vars

\* a check at exactly the timeout, in a pod: UNKNOWN, still running
C12_Witness ==
  /\ lastCheck = watchdogTimeout
  /\ inPod = "pod"
  /\ sync = "UNKNOWN"
  /\ storeOpen /\ exitCode = Running /\ pc = "live"

\* C13: a context is healthy exactly when its sync state is IN_SYNC, and the
\* overall health is true exactly when every registered context is IN_SYNC
C13_Health ==
  /\ \A c \in DOMAIN chains : isHealthy(chains[c]) <=> chains[c] = "IN_SYNC"
  /\ overallHealth <=> \A c \in DOMAIN chains : chains[c] = "IN_SYNC"

\* every network registered, one context SYNCING: the overall health is false
C13_Witness ==
  /\ DOMAIN chains = {ThisChain} \cup OtherChainIds
  /\ \E c \in DOMAIN chains :
       /\ chains[c] = "SYNCING"
       /\ \A d \in DOMAIN chains \ {c} : chains[d] = "IN_SYNC"
  /\ ~overallHealth

\* C14: a watcher starts SYNCING and its sync state only ever moves from
\* SYNCING to IN_SYNC and from IN_SYNC to UNKNOWN: it never goes back to
\* SYNCING, never reaches UNKNOWN from SYNCING and never leaves UNKNOWN,
\* whatever blocks are received afterwards (a restarted process is a new
\* watcher)
C14_SyncTransitions ==
  /\ sync = "SYNCING"
  /\ [][(sync' # sync /\ restarts' = restarts) =>
          \/ sync = "SYNCING" /\ sync' = "IN_SYNC"
          \/ sync = "IN_SYNC" /\ sync' = "UNKNOWN"
       ]_vars

\* UNKNOWN is kept: a block was received and processed and a later watchdog
\* check found it recent
C14_Witness ==
  /\ sync = "UNKNOWN"
  /\ lastCheck # NoCheck /\ lastCheck < watchdogTimeout
  /\ lastBlockReceived # NoBlock /\ lastBlockReceived.number > LiveStart
  /\ lastProc.phase = "live"
  /\ handlers = <<>>

\* C15: warm-up and the live tail never overlap: while the watcher is SYNCING
\* no 'block' handler has started and no watchdog check has run, handlers and
\* checks run only once runBlockWatcher has been called, and from then on
\* warm-up makes no Block Processor call and moves none of its variables
C15_NoOverlap ==
  /\ [](sync = "SYNCING" =>
          /\ handlers = <<>>
          /\ lastCheck = NoCheck
          /\ lastBlockReceived = NoBlock
          /\ pc # "live")
  /\ [][/\ (handlers' # handlers \/ lastCheck' # lastCheck) =>
            pc = "live" /\ sync # "SYNCING"
        /\ pc = "live" =>
            /\ pc' \in {"live", "exit"}
            /\ UNCHANGED <<fromBlock, toBlock, currentBlock, lpbLocal, queue, pageOrder>>
            /\ (lastProc' # lastProc => lastProc'.phase = "live")
       ]_vars

\* warm-up processed a block and handed over; a 'block' handler is in flight
C15_Witness ==
  /\ pc = "live"
  /\ sync = "IN_SYNC"
  /\ handlers # <<>>
  /\ lastProc.phase = "warmUp"

\* C16: whenever warm-up ends, by returning or by calling runBlockWatcher,
\* with a cursor persisted, the number of that cursor is the number of the
\* tip warm-up read last, which is the block the live tail starts from
C16_CursorAtTipWhenInSync ==
  [][(pc' # pc /\ pc' \in {"done", "live"} /\ lastProcessedBlock' # NoBlock) =>
       /\ sync' = "IN_SYNC"
       /\ store'.cursor = lastProcessedBlock'
       /\ lastProcessedBlock'.number = currentBlock'.number
       /\ pc' = "live" => lastBlockReceived' = currentBlock'
    ]_vars

\* C18: a watcher that starts without a persisted cursor while the
\* deployment block is above the tip becomes IN_SYNC at the bounds of its
\* first page without issuing a log query, whatever the page size
C18_NoQueryBelowDeployment ==
  [][(/\ pc = "page" /\ pc' \notin {"page", "start"}
      /\ cursorAtStart = NoBlock /\ lpbLocal = NoBlock
      /\ queries = <<<<>>>>
      /\ deploymentBlock > tip) =>
       /\ queries' = queries
       /\ sync' = "IN_SYNC"
    ]_vars

\* the log queries of the current run, in the order they were issued
RECURSIVE Flatten(_)
Flatten(passes) ==
  IF passes = <<>> THEN <<>> ELSE Head(passes) \o Flatten(Tail(passes))

IssuedQueries == Flatten(queries)

\* the block warm-up starts from
StartBlock ==
  IF cursorAtStart # NoBlock THEN cursorAtStart.number + 1 ELSE deploymentBlock

Min(a, b) == IF a < b THEN a ELSE b

\* every query runs from its first block to the smaller of the page end and
\* the tip as last read
C19_Ranges ==
  pageSize # 0 =>
    \A i \in 1..Len(IssuedQueries) :
      LET q == IssuedQueries[i] IN
      /\ q.from <= q.to
      /\ q.to = Min(q.from + pageSize - 1, q.tip)

\* the first query starts at the start block and every other one right after
\* the one before it
C19_Contiguous ==
  pageSize # 0 =>
    \A i \in 1..Len(IssuedQueries) :
      IssuedQueries[i].from = IF i = 1 THEN StartBlock ELSE IssuedQueries[i - 1].to + 1

\* when warm-up has ended the queries reach the tip it read last
C19_UpToFinalTip ==
  (pageSize # 0 /\ pc \in {"done", "live", "exit"} /\ StartBlock <= currentBlock.number) =>
    /\ IssuedQueries # <<>>
    /\ IssuedQueries[Len(IssuedQueries)].to = currentBlock.number

\* C19: with a truthy page size every log query of warm-up covers the blocks
\* from its first block to the smaller of the page end and the tip as last
\* read, successive queries are contiguous and do not overlap, and together
\* they cover every block from the start block to the final tip exactly once
C19_PagesCoverOnce ==
  /\ C19_Ranges
  /\ C19_Contiguous
  /\ C19_UpToFinalTip

\* C20: the page size 0 is kept as configured, the default replacing only an
\* absent option; with it every pass of warm-up issues exactly one log
\* query, to "latest", the first pass from the start block and every later
\* pass from no lower a block, and no query ends at a block number
C20_SingleQueryLatest ==
  /\ pageSizeOrDefault(0) = 0
  /\ pageSizeOrDefault(Absent) = PAGE_SIZE_DEFAULT
  /\ pageSize = 0 =>
       \A i \in 1..Len(queries) :
         /\ Len(queries[i]) <= 1
         /\ (i < Len(queries) \/ pc \notin {"start", "page"}) => Len(queries[i]) = 1
         /\ \A k \in 1..Len(queries[i]) :
              /\ queries[i][k].to = Latest
              /\ IF i = 1 THEN queries[i][k].from = StartBlock
                          ELSE queries[i][k].from >= queries[i - 1][1].from

\* warm-up with page size 0 ended after two passes of one query each
C20_Witness ==
  /\ pageSize = 0
  /\ pc = "done"
  /\ Len(queries) = 2
  /\ \A i \in 1..Len(queries) : Len(queries[i]) = 1 /\ queries[i][1].to = Latest

\* C17: warm-up, whose calls all return, on a chain that stops growing
\* terminates IN_SYNC, and when the start block was at or below the tip it
\* read first, it terminates with the persisted cursor at the tip
C17_WarmUpTerminates ==
  /\ <>(sync = "IN_SYNC" /\ pc \in {"done", "live"})
  /\ [][(pc' # pc /\ pc' \in {"done", "live"} /\ StartBlock <= tipAtStart) =>
          /\ sync' = "IN_SYNC"
          /\ lastProcessedBlock' # NoBlock
          /\ lastProcessedBlock'.number = tip'
          /\ store'.cursor = lastProcessedBlock'
       ]_vars

\* the deployment block is the tip at the start, the chain grows during
\* warm-up, and warm-up ends in sync with the cursor at the tip
C17_Witness ==
  /\ pc = "done"
  /\ sync = "IN_SYNC"
  /\ cursorAtStart = NoBlock
  /\ tipAtStart = deploymentBlock
  /\ tip > tipAtStart
  /\ lastProcessedBlock # NoBlock
  /\ lastProcessedBlock.number = tip

\* ------------------------------------------------------------------------
\* Registry Store properties
\* ------------------------------------------------------------------------

\* after a successful Registry.write the store holds the schema version
\* under the version key, the text of ownerOrders under the registry key, the
\* cursor under LAST_PROCESSED_BLOCK exactly when lastProcessedBlock is not
\* null (and then the cursor's number), and a value under LAST_NOTIFIED_ERROR
\* exactly when lastNotifiedError is not null
C21_StoreHoldsRegistry ==
  storeOp = "write" =>
    LET cursor == get(db, getNetworkStorageKey(LAST_PROCESSED_BLOCK_STORAGE_KEY, network))
        notified == get(db, getNetworkStorageKey(LAST_NOTIFIED_ERROR_STORAGE_KEY, network))
    IN /\ get(db, getNetworkStorageKey(CONDITIONAL_ORDER_REGISTRY_VERSION_KEY, network))
            = JsString(<<CONDITIONAL_ORDER_REGISTRY_VERSION>>)
       /\ get(db, getNetworkStorageKey(CONDITIONAL_ORDER_REGISTRY_STORAGE_KEY, network))
            = RegistryStringifyOrders(registry)
       /\ (cursor # JsUndefined) <=> (registry.lastProcessedBlock # JsNull)
       /\ cursor # JsUndefined => Number(cursor.value) = registry.lastProcessedBlock.value
       /\ (notified # JsUndefined) <=> (registry.lastNotifiedError # JsNull)
       /\ notified # JsUndefined => NewDate(notified) = registry.lastNotifiedError

\* C21: the store holds the registry after every successful write, and a
\* write changes the store by its whole batch or, when it fails, not at all
C21_WriteIsOneBatch ==
  /\ []C21_StoreHoldsRegistry
  /\ [][/\ storeOp' = "write" => db' = RegistryWrite(db, registry)
        /\ storeOp' = "writeFailed" => db' = db]_vars

\* a write has replaced a cursor and a notified error by their absence
C21_Witness ==
  /\ storeOp = "write"
  /\ registry.lastProcessedBlock = JsNull
  /\ registry.lastNotifiedError = JsNull
  /\ loaded # NotLoaded
  /\ loaded.lastNotifiedError # JsNull

\* C22: Registry.load from a store that holds what Registry.write wrote for a
\* registry gives a registry with equal ownerOrders, lastProcessedBlock and
\* lastNotifiedError
C22_RoundTrip ==
  (storeOp = "load" /\ db = RegistryWrite(EmptyDb, registry)) =>
     /\ loaded.ownerOrders = registry.ownerOrders
     /\ loaded.lastProcessedBlock = registry.lastProcessedBlock
     /\ loaded.lastNotifiedError = registry.lastNotifiedError

\* C23: Registry.load gives the default for every key that is not in the
\* store: an empty ownerOrders map, a null lastProcessedBlock, a null
\* lastNotifiedError
C23_LoadDefaults ==
  storeOp = "load" =>
    /\ get(db, getNetworkStorageKey(CONDITIONAL_ORDER_REGISTRY_STORAGE_KEY, network))
         = JsUndefined => loaded.ownerOrders = JsMap(<<>>)
    /\ get(db, getNetworkStorageKey(LAST_PROCESSED_BLOCK_STORAGE_KEY, network))
         = JsUndefined => loaded.lastProcessedBlock = JsNull
    /\ get(db, getNetworkStorageKey(LAST_NOTIFIED_ERROR_STORAGE_KEY, network))
         = JsUndefined => loaded.lastNotifiedError = JsNull

\* the number of conditional orders of all owners
RECURSIVE SumSizes(_)
SumSizes(sets) ==
  IF sets = <<>> THEN 0 ELSE Len(Head(sets).value) + SumSizes(Tail(sets))

\* C24: numOrders is the total number of conditional orders across all owners
C24_NumOrdersIsTotal ==
  numOrders(registry) = SumSizes(MapValues(registry.ownerOrders).value)

\* ------------------------------------------------------------------------
\* Properties of run, stop and the Block Processor's callers
\* ------------------------------------------------------------------------

\* C25: once the registry write that persists a block's cursor has failed,
\* the watcher has stopped and the process has exited with a non-zero
\* status, in warm-up and in the live tail
C25_WriteFailureIsFatal ==
  writeFailed => (exitCode # Running /\ exitCode # 0)

\* a block whose cursor write is still to come
InFlight ==
  \/ pc = "persist"
  \/ \E i \in 1..Len(handlers) : handlers[i].stage = "persist"

\* C26: the store is closed only when no block is in flight: a block that
\* was being processed has finished its cursor write
C26_CloseAfterInFlightBlock ==
  [][(storeOpen /\ ~storeOpen') => ~InFlight]_vars

\* C27: the process exits with 0 after SIGINT and after a warm-up that
\* returns, and with 1 after an unhandled rejection, after an error of
\* ChainContext.init or warmUp and after the watchdog expired outside a pod;
\* stop always reaches process.exit
C27_ExitCodes ==
  /\ exitCause \in {"sigint", "warmUpReturned"} => exitCode = 0
  /\ exitCause \in {"unhandledRejection", "init", "warmUp", "watchdog"} => exitCode = 1
  /\ (exitCode = Running) <=> (exitCause = "none")

\* warm-up has returned and run has stopped the process
C27_Witness ==
  /\ exitCause = "warmUpReturned"
  /\ exitCode = 0
  /\ ~storeOpen

\* C29: when a sub-step of a block fails, the caller of
\* processBlockAndPersist gets one block error, after the cursor of the
\* block has been persisted
C29_BlockErrorSurfaced ==
  (returned.blockError /\ returned.settled # "writeError") =>
     /\ returned.settled = "blockError"
     /\ lastProcessedBlock.number = returned.block

\* C30: every call of the Block Processor in warm-up passes the number and
\* the timestamp of the tip block warm-up holds as overrides; every call in
\* the live tail passes none
C30_Overrides ==
  /\ pc = "persist" =>
       /\ lastProc.phase = "warmUp"
       /\ lastProc.override = [blockNumber |-> JsNumber(currentBlock.number),
                               blockTimestamp |-> JsNumber(currentBlock.timestamp)]
  /\ lastProc.phase = "live" =>
       /\ lastProc.override.blockNumber = JsUndefined
       /\ lastProc.override.blockTimestamp = JsUndefined

\* warm-up has processed a block below the tip it holds
C30_Witness ==
  /\ pc = "persist"
  /\ lastProc.block < currentBlock.number
  /\ currentBlock = Block(tip)

C31_AllAttemptedThenThrow ==
  lastProc.phase = "block" =>
    LET n == Len(lastProc.input)
        polls == IF lastProc.block % processEveryNumBlocks = 0 THEN 1 ELSE 0
        failed == \E i \in 1..(n + polls) : lastProc.steps[i].rejected
    IN /\ Len(lastProc.steps) = n + polls + (IF failed THEN 1 ELSE 0)
       /\ \A i \in 1..n :
            /\ lastProc.steps[i].step = "event"
            /\ lastProc.steps[i].event = lastProc.input[i]
       /\ polls = 1 => lastProc.steps[n + 1].step = "poll"
       /\ failed => lastProc.steps[n + polls + 1].step = "throw"
       /\ lastProc.error <=> failed

\* the first event of the block was rejected, the second was added to the
\* registry, the poll step ran and processBlock threw at the end
C31_Witness ==
  /\ lastProc.phase = "block"
  /\ Len(lastProc.input) = 2
  /\ lastProc.steps[1].rejected
  /\ lastProc.steps[2].outcome = "ok" /\ ~lastProc.steps[2].rejected
  /\ lastProc.steps[2].event.owner \in DOMAIN ownerOrders
  /\ lastProc.steps[3].step = "poll"
  /\ lastProc.steps[Len(lastProc.steps)].step = "throw"

\* ------------------------------------------------------------------------
\* Properties of the handling of a log
\* ------------------------------------------------------------------------

\* C32: an event whose handling fails in _registerNewOrder (error = true)
\* leaves registry.ownerOrders exactly as it was before the event: nothing
\* flushed, nothing added
C32_FailedEventLeavesRegistry ==
  [][(lastOp'.kind \in {"ConditionalOrderCreated", "MerkleRootSet"} /\ lastOp'.mark)
       => ownerOrders' = ownerOrders]_vars

\* the rounds of the event loop of a call that did not stop at the
\* compatibility check
Compatible(step) == step.step = "event" /\ step.outcome # "notCompatible"

\* the event loop on the events of the rounds, from the registry and the
\* store as they are
Replay(rounds) ==
  IngestEvents([oo |-> ownerOrders, store |-> store, cursor |-> lastProcessedBlock,
                error |-> FALSE, receipts |-> 0, skipped |-> 0, steps |-> <<>>,
                writes |-> 0],
               [i \in 1..Len(rounds) |-> rounds[i].event],
               [i \in 1..Len(rounds) |-> rounds[i].outcome])

\* C33: an event of a contract that is not composable-compatible completes
\* without error, and the registry, the store, the number of registry
\* writes and the error flag after the block are what they would be had the
\* block not carried the event
C33_NotCompatibleIsNoOp ==
  [][(lastProc.phase = "none" /\ lastProc'.phase = "block") =>
       LET without == Replay(SelectSeq(lastProc'.steps, Compatible))
           pollFailed == \E i \in 1..Len(lastProc'.steps) :
                           lastProc'.steps[i].step = "poll" /\ lastProc'.steps[i].rejected
       IN /\ \A i \in 1..Len(lastProc'.steps) :
               lastProc'.steps[i].outcome = "notCompatible" => ~lastProc'.steps[i].rejected
          /\ ownerOrders' = without.oo
          /\ store' = without.store
          /\ lastProc'.writes = without.writes
          /\ lastProc'.error <=> (without.error \/ pollFailed)
    ]_vars

\* a block whose two events come from contracts that are not compatible: no
\* write, no error, the registry as before
C33_Witness ==
  /\ lastProc.phase = "block"
  /\ Len(lastProc.input) = 2
  /\ \A i \in 1..2 : lastProc.steps[i].outcome = "notCompatible"
  /\ lastProc.writes = 0
  /\ ~lastProc.error
  /\ ownerOrders # <<>>

\* the orders of a set that flush(owner, root) is to keep: single orders and
\* merkle orders under the root
KeptBy(entries, root) ==
  SelectSeq(entries, LAMBDA x : x.proof = NoProof \/ x.proof.merkleRoot = root)

\* C34: flush(owner, R) keeps the owner's single orders and merkle orders of
\* root R as they are and adds nothing, leaves the sets of all other owners
\* unchanged, and creates no entry for an owner the registry does not hold
C34_FlushFrame ==
  [][lastOp'.kind = "flush" =>
       LET owner == lastOp'.owner
           root == lastOp'.root
       IN /\ DOMAIN ownerOrders' = DOMAIN ownerOrders
          /\ \A o \in DOMAIN ownerOrders \ {owner} : ownerOrders'[o] = ownerOrders[o]
          /\ owner \in DOMAIN ownerOrders =>
               /\ KeptBy(ownerOrders'[owner], root) = KeptBy(ownerOrders[owner], root)
               /\ \A i \in 1..Len(ownerOrders'[owner]) :
                    \E j \in 1..Len(ownerOrders[owner]) :
                      ownerOrders'[owner][i] = ownerOrders[owner][j]
          /\ owner \notin DOMAIN ownerOrders => ownerOrders' = ownerOrders
    ]_vars

\* after a flush the owner holds a single order and a merkle order of the
\* root
C34_Witness ==
  /\ lastOp.kind = "flush"
  /\ lastOp.owner \in DOMAIN ownerOrders
  /\ \E i, j \in 1..Len(ownerOrders[lastOp.owner]) :
       /\ ownerOrders[lastOp.owner][i].proof = NoProof
       /\ ownerOrders[lastOp.owner][j].proof = [merkleRoot |-> lastOp.root]

\* what the store holds under key name k of a network, or nothing
StoredUnder(k, net) ==
  IF <<k, "_", net>> \in DOMAIN db THEN db[<<k, "_", net>>] ELSE JsUndefined

\* the store holds registry r under the four keys of the network
HoldsFor(net, r) ==
  /\ StoredUnder(CONDITIONAL_ORDER_REGISTRY_VERSION_KEY, net) = JsString(<<r.version>>)
  /\ StoredUnder(CONDITIONAL_ORDER_REGISTRY_STORAGE_KEY, net) = RegistryStringifyOrders(r)
  /\ StoredUnder(LAST_PROCESSED_BLOCK_STORAGE_KEY, net) =
       IF r.lastProcessedBlock = JsNull THEN JsUndefined
       ELSE JsString(NumberToString(r.lastProcessedBlock.value))
  /\ StoredUnder(LAST_NOTIFIED_ERROR_STORAGE_KEY, net) =
       IF r.lastNotifiedError = JsNull THEN JsUndefined
       ELSE toISOString(r.lastNotifiedError)

\* C35: whatever the order in which the registries of the networks write to
\* the store they share, the store holds for each network the version, the
\* orders, the cursor and the time of the last notified error of that
\* network's own last write, and a write changes nothing under the keys of
\* another network
C35_NetworksApart ==
  /\ [](\A net \in Networks : written[net] # NotLoaded => HoldsFor(net, written[net]))
  /\ [][storeOp' = "write" =>
          \E net \in Networks :
            \A key \in DOMAIN db : key[3] # net => (key \in DOMAIN db' /\ db'[key] = db[key])
       ]_vars

\* both networks have written, the other network last, registries that
\* differ in their orders, cursor and time of the last notified error
C35_Witness ==
  /\ storeOp = "write"
  /\ \A net \in Networks : written[net] # NotLoaded
  /\ HoldsFor("100", registry)
  /\ written[network].ownerOrders # written["100"].ownerOrders
  /\ written[network].lastProcessedBlock \notin {JsNull, written["100"].lastProcessedBlock}
  /\ written[network].lastNotifiedError # written["100"].lastNotifiedError

\* the orders of an owner, none when the registry does not hold the owner
OrdersOf(oo, owner) == IF owner \in DOMAIN oo THEN oo[owner] ELSE <<>>

\* C36: a MerkleRootSet(owner, root, proof) event that is handled without
\* error removes the owner's merkle orders of any other root whatever
\* proof.location is; when the location is 1 the orders of the proof follow
\* the orders that are kept, each with proof.merkleRoot = root, and with any
\* other location nothing is added; no other owner's orders change
C36_FlushThenAddEmitted ==
  [][(lastOp'.kind = "MerkleRootSet" /\ ~lastOp'.mark) =>
       LET e == lastOp'.event
           kept == KeptBy(OrdersOf(ownerOrders, e.owner), e.root)
           after == OrdersOf(ownerOrders', e.owner)
       IN /\ \A o \in DOMAIN ownerOrders \ {e.owner} :
               o \in DOMAIN ownerOrders' /\ ownerOrders'[o] = ownerOrders[o]
          /\ DOMAIN ownerOrders' \subseteq DOMAIN ownerOrders \cup {e.owner}
          /\ SubSeq(after, 1, Len(kept)) = kept
          /\ IF e.location = 1
               THEN /\ Len(after) = Len(kept) + Len(e.orders)
                    /\ \A i \in 1..Len(e.orders) :
                         /\ after[Len(kept) + i].proof = [merkleRoot |-> e.root]
                         /\ ParamsValue(after[Len(kept) + i].params) = e.orders[i]
                         /\ after[Len(kept) + i].tx = e.tx
               ELSE Len(after) = Len(kept)
    ]_vars

\* a MerkleRootSet whose proof is not emitted on chain has left the owner
\* with no order: the merkle orders of the earlier root are gone and nothing
\* was added
C36_Witness ==
  /\ lastOp.kind = "MerkleRootSet"
  /\ ~lastOp.mark
  /\ lastOp.event.location = 0
  /\ lastOp.event.owner \in DOMAIN ownerOrders
  /\ ownerOrders[lastOp.event.owner] = <<>>

\* ------------------------------------------------------------------------
\* Properties of the filter policy refresh
\* ------------------------------------------------------------------------

C38_LiveTailHasNoGap ==
  (pc = "live" /\ store.cursor # NoBlock) =>
    \A b \in (currentBlock.number + 1)..store.cursor.number : b \in handed

\* the rounds of the event loop of a call for which a receipt was found
WithReceipt(step) == step.step = "event" /\ step.outcome # "noReceipt"

\* C39: an event without a transaction receipt is skipped: no error, no
\* increment of eventsProcessedTotal, and the registry, the store and the
\* error flag after the block are what they would be had the block not
\* carried the event; eventsProcessedTotal grows by one for every event with
\* a receipt, whatever became of it; and the cursor of the block is persisted
C39_NoReceiptIsSkipped ==
  /\ [](lastProc.phase = "block" =>
          /\ lastProc.receipts = Len(SelectSeq(lastProc.steps, WithReceipt))
          /\ lastProc.receipts + lastProc.skipped = Len(lastProc.input)
          /\ \A i \in 1..Len(lastProc.input) :
               lastProc.steps[i].outcome = "noReceipt" => ~lastProc.steps[i].rejected
          /\ pc = "persisted" =>
               /\ lastProcessedBlock = blockToRegistryBlock(Block(lastProc.block))
               /\ store.cursor = lastProcessedBlock)
  /\ [][(lastProc.phase = "none" /\ lastProc'.phase = "block") =>
          LET without == Replay(SelectSeq(lastProc'.steps, WithReceipt))
              pollFailed == \E i \in 1..Len(lastProc'.steps) :
                              lastProc'.steps[i].step = "poll" /\ lastProc'.steps[i].rejected
          IN /\ ownerOrders' = without.oo
             /\ store' = without.store
             /\ lastProc'.receipts = without.receipts
             /\ lastProc'.error <=> (without.error \/ pollFailed)
       ]_vars

\* a block of two events, the first without a receipt, the second added: one
\* increment, no error, the cursor of the block persisted
C39_Witness ==
  /\ pc = "persisted"
  /\ Len(lastProc.input) = 2
  /\ lastProc.steps[1].outcome = "noReceipt"
  /\ lastProc.steps[2].outcome = "ok"
  /\ lastProc.receipts = 1
  /\ ~lastProc.error
  /\ store.cursor = blockToRegistryBlock(Block(lastProc.block))

\* ------------------------------------------------------------------------
\* Properties of the console wrappers of initLogging
\* ------------------------------------------------------------------------

\* the position of the first initLogging call, 0 before it
FirstInit ==
  LET inits == {i \in 1..Len(consoleCalls) : consoleCalls[i].method = "initLogging"}
  IN IF inits = {} THEN 0 ELSE CHOOSE i \in inits : \A j \in inits : i <= j

\* a call of a console method that logs a message (it has an argument)
IsMessage(call) == call.method \in Methods /\ call.data # <<>>

\* the messages logged through the wrappers, in the order of the calls
WrappedMessages ==
  IF FirstInit = 0 THEN <<>>
  ELSE SelectSeq(SubSeq(consoleCalls, FirstInit + 1, Len(consoleCalls)), IsMessage)

\* the position in WrappedMessages of the last error message, 0 without one
LastError ==
  LET errors == {i \in 1..Len(WrappedMessages) : WrappedMessages[i].method = "error"}
  IN IF errors = {} THEN 0 ELSE CHOOSE i \in errors : \A j \in errors : j <= i

MessageOf(call) ==
  [level |-> IF call.method = "log" THEN "info" ELSE call.method,
   message |-> call.data[1],
   meta |-> Tail(call.data)]

====
